---- MODULE Spec2Model ----
(***************************************************************************)
(* Model of the terminal "Matrix rain" animation of src/main.go            *)
(* (lines 1-649, the refactored program): Frame, Screen (full and delta    *)
(* rendering with a cached previous frame), Engine (drop grid, Update,     *)
(* Resize, NextFrame, drawDrop).                                           *)
(*                                                                         *)
(* Frames are Go pointers: the model keeps a heap of frame objects and     *)
(* the Engine's frameBuffer and the Screen's previousFrame are references  *)
(* into it, so that sharing of storage between the two is expressible.     *)
(* The output sink is followed by an ANSI terminal that interprets what    *)
(* the Screen writes.                                                      *)
(***************************************************************************)
EXTENDS Integers, Sequences, FiniteSets, TLC

\* ---------------------------------------------------------------- bounds
MaxRows == 2
MaxCols == 2
MaxCells == 4
MaxRefs == 2
MaxHeight == 3
MaxWidth == 2
MaxArea == 4
MaxConfigChars == 2
MaxConfigLength == 2
MaxGoroutines == 2

\* ---------------------------------------------------------------- CONFIG
\* Config.MinDropLength and Config.MaxDropLength
MinDropLength == 1
MaxDropLength == 2

\* Config.Density in tenths: the default of the -density flag, 0.7
Density10 == 7

\* Config.CharSet
CharSet == <<"a", "b">>

\* ------------------------------------------------------------- utilities
max(a, b) == IF a > b THEN a ELSE b

min(a, b) == IF a < b THEN a ELSE b

\* ----------------------------------------------------------------- COLOR
\* Color{} : the zero value of struct{ R, G, B uint8 }
ZeroColor == <<0, 0, 0>>

\* defaultConfigData.ColorThemes["green"]
Green == <<0, 255, 0>>

\* colours a frame cell may carry in the Screen specification
ScreenColors == {ZeroColor, Green}

\* glyphs a drop may write in the Screen specification
ScreenGlyphs == {"a"}

\* ----------------------------------------------------------------- FRAME
Nil == 0

Refs == 1..MaxRefs

NoFrame == [height |-> 0, width |-> 0, characters |-> <<>>, colors |-> <<>>,
            isBackground |-> <<>>]

NewFrame(height, width) ==
    [height |-> height, width |-> width,
     characters |-> [i \in 0..(height - 1) |-> [j \in 0..(width - 1) |-> " "]],
     colors |-> [i \in 0..(height - 1) |-> [j \in 0..(width - 1) |-> ZeroColor]],
     isBackground |-> [i \in 0..(height - 1) |-> [j \in 0..(width - 1) |-> TRUE]]]

\* a clear that leaves the frame as it is
clear_keep(f) ==
    f

\* Frame.clear: every cell a space of the zero colour, marked background
clear(f) ==
    [f EXCEPT
       !.characters = [i \in DOMAIN f.characters |->
                          [j \in DOMAIN f.characters[i] |-> " "]],
       !.isBackground = [i \in DOMAIN f.characters |->
                          [j \in DOMAIN f.characters[i] |-> TRUE]],
       !.colors = [i \in DOMAIN f.characters |->
                          [j \in DOMAIN f.characters[i] |-> ZeroColor]]]

\* the three assignments drawDrop makes to one cell
writeCell(f, row, col, ch, color) ==
    [f EXCEPT !.characters[row][col] = ch,
              !.isBackground[row][col] = FALSE,
              !.colors[row][col] = color]

\* Go's copy(dst, src): the first min(len(dst), len(src)) elements
copy(dst, src) ==
    [j \in DOMAIN dst |-> IF j \in DOMAIN src THEN src[j] ELSE dst[j]]

\* the frame sizes of the Screen specification
ScreenDims ==
    {d \in (1..MaxRows) \X (1..MaxCols) : d[1] * d[2] <= MaxCells}

\* the object a new allocation returns: one no live reference points to
Alloc(live) == CHOOSE r \in Refs : r \notin live /\ \A q \in Refs \ live : r <= q

\* unreachable objects are collected
Collect(h, live) == [r \in Refs |-> IF r \in live THEN h[r] ELSE NoFrame]

\* ------------------------------------------------------ what Screen writes
\* The escape sequences and runes appended to the strings.Builder:
\*   HOME  "\x1b[H"            CUP  "\x1b[<row>;<col>H"
\*   SGR   "\x1b[38;2;R;G;Bm"  RESET "\x1b[0m"
\*   CHAR  one rune            CRLF  "\r\n"
Tok(op, row, col, color, ch) ==
    [op |-> op, row |-> row, col |-> col, color |-> color, ch |-> ch]

HOME == Tok("HOME", 0, 0, ZeroColor, "")

CUP(row, col) == Tok("CUP", row, col, ZeroColor, "")

SGR(c) == Tok("SGR", 0, 0, c, "")

RESET == Tok("RESET", 0, 0, ZeroColor, "")

CHAR(ch) == Tok("CHAR", 0, 0, ZeroColor, ch)

CRLF == Tok("CRLF", 0, 0, ZeroColor, "")

\* the builder and the two locals every render loop carries
NewBuilder(first) ==
    [b |-> first, currentColor |-> ZeroColor, isColorSet |-> FALSE,
     hasChanges |-> FALSE]

writeColor(st, c) ==
    IF ~st.isColorSet \/ c # st.currentColor
    THEN [st EXCEPT !.b = Append(@, SGR(c)), !.currentColor = c,
                    !.isColorSet = TRUE]
    ELSE st

resetColor(st) ==
    IF st.isColorSet
    THEN [st EXCEPT !.b = Append(@, RESET), !.isColorSet = FALSE]
    ELSE st

\* the body of fullRender's inner loop for the cell (row, col)
fullCell(frame, row, col, st) ==
    LET s1 == IF frame.isBackground[row][col]
              THEN resetColor(st)
              ELSE IF col = 0 \/ frame.colors[row][col] # frame.colors[row][col - 1]
                   THEN writeColor(st, frame.colors[row][col])
                   ELSE st
        s2 == [s1 EXCEPT !.b = Append(@, CHAR(frame.characters[row][col]))]
    IN  IF col = frame.width - 1 /\ row < frame.height - 1
        THEN [s2 EXCEPT !.b = Append(@, CRLF)]
        ELSE s2

\* rows outside, columns inside: cell k is (k \div width, k % width)
RECURSIVE fullLoop(_, _, _)
fullLoop(frame, k, st) ==
    IF k >= frame.height * frame.width
    THEN st
    ELSE fullLoop(frame, k + 1,
                  fullCell(frame, k \div frame.width, k % frame.width, st))

\* a full render that writes the cursor-home sequence on its own and the
\* cells in a second write
fullRender_homeFirst(frame) ==
    LET st == fullLoop(frame, 0, NewBuilder(<<HOME>>))
    IN  << <<HOME>>, Tail(resetColor(st).b) >>

\* fullRender: the sequence of writes made to s.out (always exactly one)
fullRender(frame) ==
    LET st == fullLoop(frame, 0, NewBuilder(<<HOME>>))
    IN  << resetColor(st).b >>

\* a comparison that looks at the character alone
cellChanged_charOnly(frame, prev, row, col) ==
    frame.characters[row][col] # prev.characters[row][col]

\* the condition under which deltaRender emits the cell (row, col)
cellChanged(frame, prev, row, col) ==
    \/ frame.characters[row][col] # prev.characters[row][col]
    \/ frame.colors[row][col] # prev.colors[row][col]

\* a delta render that addresses the cursor with the grid's own indices
deltaCell_zeroBased(frame, prev, row, col, st) ==
    IF cellChanged(frame, prev, row, col)
    THEN LET s0 == [st EXCEPT !.hasChanges = TRUE,
                              !.b = Append(@, CUP(row, col))]
             s1 == IF frame.isBackground[row][col]
                   THEN resetColor(s0)
                   ELSE writeColor(s0, frame.colors[row][col])
         IN  [s1 EXCEPT !.b = Append(@, CHAR(frame.characters[row][col]))]
    ELSE st

\* the body of deltaRender's inner loop for the cell (row, col)
deltaCell(frame, prev, row, col, st) ==
    IF cellChanged(frame, prev, row, col)
    THEN LET s0 == [st EXCEPT !.hasChanges = TRUE,
                              !.b = Append(@, CUP(row + 1, col + 1))]
             s1 == IF frame.isBackground[row][col]
                   THEN resetColor(s0)
                   ELSE writeColor(s0, frame.colors[row][col])
         IN  [s1 EXCEPT !.b = Append(@, CHAR(frame.characters[row][col]))]
    ELSE st

\* columns outside, rows inside: cell k is (k % height, k \div height)
RECURSIVE deltaLoop(_, _, _, _)
deltaLoop(frame, prev, k, st) ==
    IF k >= frame.height * frame.width
    THEN st
    ELSE deltaLoop(frame, prev, k + 1,
                   deltaCell(frame, prev, k % frame.height, k \div frame.height, st))

\* a delta render that resets and writes whether or not a cell changed
deltaRender_alwaysReset(frame, prev) ==
    << Append(deltaLoop(frame, prev, 0, NewBuilder(<<>>)).b, RESET) >>

\* a delta render that leaves the last colour it set in force
deltaRender_noFinalReset(frame, prev) ==
    LET st == deltaLoop(frame, prev, 0, NewBuilder(<<>>))
    IN  IF st.hasChanges THEN << st.b >> ELSE << >>

\* deltaRender: the sequence of writes made to s.out (none or one)
deltaRender(frame, prev) ==
    LET st == deltaLoop(frame, prev, 0, NewBuilder(<<>>))
    IN  IF st.hasChanges THEN << resetColor(st).b >> ELSE << >>

\* a copy that leaves the is-background grid of the destination as it was
copyFrame_noBackground(src, dst) ==
    [dst EXCEPT
       !.characters = [r \in DOMAIN dst.characters |->
            copy(dst.characters[r], src.characters[r])],
       !.colors = [r \in DOMAIN dst.colors |->
            copy(dst.colors[r], src.colors[r])]]

\* copyFrame(src, dst): the destination after the row-by-row copy
copyFrame(src, dst) ==
    [dst EXCEPT
       !.characters = [r \in DOMAIN dst.characters |->
            IF r \in DOMAIN src.characters
            THEN copy(dst.characters[r], src.characters[r])
            ELSE dst.characters[r]],
       !.colors = [r \in DOMAIN dst.colors |->
            IF r \in DOMAIN src.characters
            THEN copy(dst.colors[r], src.colors[r])
            ELSE dst.colors[r]],
       !.isBackground = [r \in DOMAIN dst.isBackground |->
            IF r \in DOMAIN src.characters
            THEN copy(dst.isBackground[r], src.isBackground[r])
            ELSE dst.isBackground[r]]]

\* a Draw that renders in full every time
needsFull_always(prevRef, prev, frame) ==
    TRUE

\* Draw's choice between the two render modes
needsFull(prevRef, prev, frame) ==
    prevRef = Nil \/ prev.height # frame.height \/ prev.width # frame.width

\* a Draw that keeps the pointer it was given as its previous frame
drawCache_alias(h, prevRef, fRef) ==
    [previousFrame |-> fRef, heap |-> h]

\* Draw's effect on the cache: a new frame object filled by copyFrame after a
\* full render, the existing cache object overwritten after a delta render
drawCache(h, prevRef, fRef) ==
    IF needsFull(prevRef, h[IF prevRef = Nil THEN fRef ELSE prevRef], h[fRef])
    THEN LET n == Alloc({fRef})
         IN  [previousFrame |-> n,
              heap |-> [Collect(h, {fRef}) EXCEPT
                          ![n] = copyFrame(h[fRef],
                                   NewFrame(h[fRef].height, h[fRef].width))]]
    ELSE [previousFrame |-> prevRef,
          heap |-> [h EXCEPT ![prevRef] = copyFrame(h[fRef], h[prevRef])]]

\* what Draw writes to s.out
drawOutput(h, prevRef, fRef) ==
    IF needsFull(prevRef, h[IF prevRef = Nil THEN fRef ELSE prevRef], h[fRef])
    THEN fullRender(h[fRef])
    ELSE deltaRender(h[fRef], h[prevRef])

\* ---------------------------------------------- the terminal behind s.out
DefaultAttr == [set |-> FALSE, color |-> ZeroColor]

BlankCell == [ch |-> " ", fg |-> DefaultAttr]

\* a cleared screen of the given size, cursor at the top left
FreshTerm(rows, cols) ==
    [rows |-> rows, cols |-> cols,
     cells |-> [r \in 1..rows |-> [c \in 1..cols |-> BlankCell]],
     row |-> 1, col |-> 1, attr |-> DefaultAttr]

\* the window is resized: the cells that remain keep their content
resizeTerm(t, rows, cols) ==
    [rows |-> rows, cols |-> cols,
     cells |-> [r \in 1..rows |-> [c \in 1..cols |->
                  IF r <= t.rows /\ c <= t.cols THEN t.cells[r][c] ELSE BlankCell]],
     row |-> min(t.row, rows), col |-> min(t.col, cols), attr |-> t.attr]

\* a line feed on the last line scrolls the screen up by one line
lineFeed(t) ==
    IF t.row < t.rows
    THEN [t EXCEPT !.row = @ + 1]
    ELSE [t EXCEPT !.cells = [r \in 1..t.rows |->
                       IF r < t.rows THEN t.cells[r + 1]
                       ELSE [c \in 1..t.cols |-> BlankCell]]]

\* a rune printed after the last column wraps to the next line first
putChar(t, ch) ==
    LET w == IF t.col > t.cols THEN [lineFeed(t) EXCEPT !.col = 1] ELSE t
    IN  [w EXCEPT !.cells[w.row][w.col] = [ch |-> ch, fg |-> w.attr],
                  !.col = @ + 1]

applyTok(t, tok) ==
    CASE tok.op = "HOME" -> [t EXCEPT !.row = 1, !.col = 1]
      [] tok.op = "CUP" -> [t EXCEPT !.row = min(tok.row, t.rows),
                                      !.col = min(tok.col, t.cols)]
      [] tok.op = "SGR" -> [t EXCEPT !.attr = [set |-> TRUE, color |-> tok.color]]
      [] tok.op = "RESET" -> [t EXCEPT !.attr = DefaultAttr]
      [] tok.op = "CHAR" -> putChar(t, tok.ch)
      [] tok.op = "CRLF" -> [lineFeed(t) EXCEPT !.col = 1]

RECURSIVE applyToks(_, _, _)
applyToks(t, toks, k) ==
    IF k > Len(toks) THEN t ELSE applyToks(applyTok(t, toks[k]), toks, k + 1)

\* the terminal after a sequence of writes
RECURSIVE applyWrites(_, _, _)
applyWrites(t, writes, k) ==
    IF k > Len(writes) THEN t
    ELSE applyWrites(applyToks(t, writes[k], 1), writes, k + 1)

\* what the terminal shows in the region a frame of the given size covers
visible(t, height, width) ==
    [r \in 1..height |-> [c \in 1..width |-> t.cells[r][c]]]


\* ---------------------------------------------------------------- ENGINE
\* Config.BaseColor
BaseColor == Green

\* the largest value of a uint8 channel
MaxChannel == 255

\* float64 arithmetic: the fades 1.0 - 2.0/5*0.8 and 1.0 - 4.0/5*0.8 lie just
\* below 17/25 and 9/25, and for these <<channel, numerator>> pairs the
\* product float64(channel) * fade comes out just below the whole number
\* channel*17/25 or channel*9/25, so that uint8() truncates to one less
ProductsBelow ==
    {<<25, 9>>, <<50, 9>>, <<75, 9>>, <<100, 9>>, <<125, 9>>, <<150, 9>>,
     <<175, 9>>, <<200, 9>>, <<225, 9>>, <<250, 9>>,
     <<75, 17>>, <<125, 17>>, <<150, 17>>, <<175, 17>>, <<250, 17>>}

\* uint8(float64(ch) * fade) for fade = num/den
scale(ch, num, den) ==
    IF den = 25 /\ <<ch, num>> \in ProductsBelow
    THEN ((ch * num) \div den) - 1
    ELSE (ch * num) \div den

\* dim(c, fade) for fade = num/den: each channel multiplied and truncated
dim(c, num, den) ==
    <<scale(c[1], num, den), scale(c[2], num, den), scale(c[3], num, den)>>

\* a gradient that grows brighter from the head to the tail
calcTrailColorsOf_rising(base, steps) ==
    [i \in 0..(steps - 1) |-> dim(base, 5 * steps - 4 * (steps - 1 - i), 5 * steps)]

\* calcTrailColors(steps) of an engine with the given base colour:
\* fade = 1.0 - i/steps*0.8 = (5*steps - 4*i)/(5*steps)
calcTrailColorsOf(base, steps) ==
    [i \in 0..(steps - 1) |-> dim(base, 5 * steps - 4 * i, 5 * steps)]

calcTrailColors(steps) == calcTrailColorsOf(BaseColor, steps)

\* NewEngine: e.trailColors = e.calcTrailColors(5)
trailColors == calcTrailColors(5)

NumTrailColors == Cardinality(DOMAIN trailColors)

\* an index counted from the tail of the drop instead of from its head
getTrailColorIndex_reversed(pos, tail, length) ==
    LET dist == pos - tail
        idx == (dist * NumTrailColors) \div length
    IN  IF idx >= NumTrailColors THEN 0 ELSE NumTrailColors - 1 - idx

\* getTrailColorIndex(pos, tail, length), called with the row as tail
getTrailColorIndex(pos, tail, length) ==
    LET dist == pos - tail
        idx == (dist * NumTrailColors) \div length
    IN  IF idx >= NumTrailColors THEN NumTrailColors - 1 ELSE idx

\* a loop from the tail to the head without the clamps
drawRows_noClamp(drop, frameHeight) ==
    (drop.Pos - drop.Length)..drop.Pos

\* the rows drawDrop's loop visits: startRow..endRow
drawRows(drop, frameHeight) ==
    max(drop.Pos - drop.Length, 0)..min(drop.Pos, frameHeight - 1)

\* drawDrop: the frame after the loop, the cells it assigned, and whether an
\* index was out of range (a Go runtime panic)
drawDrop(drop, frame, col) ==
    LET rows == drawRows(drop, frame.height)
        inside == {row \in rows : row \in 0..(frame.height - 1)}
    IN  [frame |->
            [frame EXCEPT
               !.characters = [r \in DOMAIN frame.characters |->
                   [c \in DOMAIN frame.characters[r] |->
                       IF r \in inside /\ c = col THEN drop.Char
                       ELSE frame.characters[r][c]]],
               !.isBackground = [r \in DOMAIN frame.isBackground |->
                   [c \in DOMAIN frame.isBackground[r] |->
                       IF r \in inside /\ c = col THEN FALSE
                       ELSE frame.isBackground[r][c]]],
               !.colors = [r \in DOMAIN frame.colors |->
                   [c \in DOMAIN frame.colors[r] |->
                       IF r \in inside /\ c = col
                       THEN trailColors[getTrailColorIndex(drop.Pos, r, drop.Length)]
                       ELSE frame.colors[r][c]]]],
         touched |-> {[row |-> row, col |-> col, Pos |-> drop.Pos,
                       Length |-> drop.Length,
                       idx |-> getTrailColorIndex(drop.Pos, row, drop.Length)] :
                         row \in rows},
         panicked |-> inside # rows]

\* the lengths random.Intn(max-min+1) + min can return
DropLengths == MinDropLength..MaxDropLength

\* the runes charSet[random.Intn(len(charSet))] can return
DropChars == {CharSet[i] : i \in DOMAIN CharSet}

\* a NewDrop whose length can be one more than the maximum
NewDrop_longer(h) ==
    IF h <= 0 \/ h \div 2 <= 0
    THEN {}
    ELSE {[Pos |-> p1 - p2, Length |-> l, Char |-> ch, Active |-> TRUE] :
            p1 \in 0..(h - 1), p2 \in 0..((h \div 2) - 1),
            l \in MinDropLength..(MaxDropLength + 1), ch \in DropChars}

\* NewDrop: the drops it can return.  random.Intn(n) panics for n <= 0, so
\* the set is empty (and the call panics) when height/2 = 0.
NewDrop(h) ==
    IF h <= 0 \/ h \div 2 <= 0
    THEN {}
    ELSE {[Pos |-> p1 - p2, Length |-> l, Char |-> ch, Active |-> TRUE] :
            p1 \in 0..(h - 1), p2 \in 0..((h \div 2) - 1),
            l \in DropLengths, ch \in DropChars}

\* an Update whose reset draws the length first and then negates it
Update_posNewLength(d, h) ==
    IF ~d.Active
    THEN {[d |-> d, rolled |-> TRUE, reset |-> FALSE]}
    ELSE IF (d.Pos + 1) - d.Length > h
         THEN {[d |-> [Pos |-> 0 - l, Length |-> l, Char |-> ch, Active |-> ~pause],
                rolled |-> FALSE, reset |-> TRUE] :
                 l \in DropLengths, ch \in DropChars, pause \in BOOLEAN}
         ELSE {[d |-> [d EXCEPT !.Pos = @ + 1], rolled |-> FALSE, reset |-> FALSE]}

\* an Update whose pause roll is made on every tick of an active drop
Update_pauseAnyTick(d, h) ==
    IF ~d.Active
    THEN {[d |-> d, rolled |-> TRUE, reset |-> FALSE]}
         \cup {[d |-> [Pos |-> 0, Length |-> l, Char |-> ch, Active |-> TRUE],
                rolled |-> TRUE, reset |-> FALSE] :
                 l \in DropLengths, ch \in DropChars}
    ELSE IF (d.Pos + 1) - d.Length > h
         THEN {[d |-> [Pos |-> 0 - d.Length, Length |-> l, Char |-> ch,
                       Active |-> ~pause],
                rolled |-> FALSE, reset |-> TRUE] :
                 l \in DropLengths, ch \in DropChars, pause \in BOOLEAN}
         ELSE {[d |-> [d EXCEPT !.Pos = @ + 1, !.Active = ~pause],
                rolled |-> FALSE, reset |-> FALSE] : pause \in BOOLEAN}

\* an Update that draws a new character on every tick of an active drop
Update_charEveryTick(d, h) ==
    IF ~d.Active
    THEN {[d |-> d, rolled |-> TRUE, reset |-> FALSE]}
         \cup {[d |-> [Pos |-> 0, Length |-> l, Char |-> ch, Active |-> TRUE],
                rolled |-> TRUE, reset |-> FALSE] :
                 l \in DropLengths, ch \in DropChars}
    ELSE IF (d.Pos + 1) - d.Length > h
         THEN {[d |-> [Pos |-> 0 - d.Length, Length |-> l, Char |-> ch,
                       Active |-> ~pause],
                rolled |-> FALSE, reset |-> TRUE] :
                 l \in DropLengths, ch \in DropChars, pause \in BOOLEAN}
         ELSE {[d |-> [d EXCEPT !.Pos = @ + 1, !.Char = ch],
                rolled |-> FALSE, reset |-> FALSE] : ch \in DropChars}

\* an Update whose failed reactivation roll still moves the drop
Update_rollMoves(d, h) ==
    IF ~d.Active
    THEN {[d |-> [d EXCEPT !.Pos = @ + 1], rolled |-> TRUE, reset |-> FALSE]}
         \cup {[d |-> [Pos |-> 0, Length |-> l, Char |-> ch, Active |-> TRUE],
                rolled |-> TRUE, reset |-> FALSE] :
                 l \in DropLengths, ch \in DropChars}
    ELSE IF (d.Pos + 1) - d.Length > h
         THEN {[d |-> [Pos |-> 0 - d.Length, Length |-> l, Char |-> ch,
                       Active |-> ~pause],
                rolled |-> FALSE, reset |-> TRUE] :
                 l \in DropLengths, ch \in DropChars, pause \in BOOLEAN}
         ELSE {[d |-> [d EXCEPT !.Pos = @ + 1], rolled |-> FALSE, reset |-> FALSE]}

\* an Update that reactivates a drop above the frame and with its old character
Update_reactivateAbove(d, h) ==
    IF ~d.Active
    THEN {[d |-> d, rolled |-> TRUE, reset |-> FALSE]}
         \cup {[d |-> [Pos |-> 0 - l, Length |-> l, Char |-> d.Char, Active |-> TRUE],
                rolled |-> TRUE, reset |-> FALSE] :
                 l \in DropLengths}
    ELSE IF (d.Pos + 1) - d.Length > h
         THEN {[d |-> [Pos |-> 0 - d.Length, Length |-> l, Char |-> ch,
                       Active |-> ~pause],
                rolled |-> FALSE, reset |-> TRUE] :
                 l \in DropLengths, ch \in DropChars, pause \in BOOLEAN}
         ELSE {[d |-> [d EXCEPT !.Pos = @ + 1], rolled |-> FALSE, reset |-> FALSE]}

\* an Update that resets a drop one row later
Update_lateReset(d, h) ==
    IF ~d.Active
    THEN {[d |-> d, rolled |-> TRUE, reset |-> FALSE]}
         \cup {[d |-> [Pos |-> 0, Length |-> l, Char |-> ch, Active |-> TRUE],
                rolled |-> TRUE, reset |-> FALSE] :
                 l \in DropLengths, ch \in DropChars}
    ELSE IF (d.Pos + 1) - d.Length > h + 1
         THEN {[d |-> [Pos |-> 0 - d.Length, Length |-> l, Char |-> ch,
                       Active |-> ~pause],
                rolled |-> FALSE, reset |-> TRUE] :
                 l \in DropLengths, ch \in DropChars, pause \in BOOLEAN}
         ELSE {[d |-> [d EXCEPT !.Pos = @ + 1], rolled |-> FALSE, reset |-> FALSE]}

\* an Update under which an active drop does not fall
Update_stall(d, h) ==
    IF ~d.Active
    THEN {[d |-> d, rolled |-> TRUE, reset |-> FALSE]}
         \cup {[d |-> [Pos |-> 0, Length |-> l, Char |-> ch, Active |-> TRUE],
                rolled |-> TRUE, reset |-> FALSE] :
                 l \in DropLengths, ch \in DropChars}
    ELSE IF d.Pos - d.Length > h
         THEN {[d |-> [Pos |-> 0 - d.Length, Length |-> l, Char |-> ch,
                       Active |-> ~pause],
                rolled |-> FALSE, reset |-> TRUE] :
                 l \in DropLengths, ch \in DropChars, pause \in BOOLEAN}
         ELSE {[d |-> d, rolled |-> FALSE, reset |-> FALSE]}

\* Engine.Update(d, height): the outcomes of one call, each with the drop
\* afterwards, whether a reactivation roll was made and whether the drop was
\* reset.  Every random.Float64() comparison can go either way.
Update(d, h) ==
    IF ~d.Active
    THEN {[d |-> d, rolled |-> TRUE, reset |-> FALSE]}
         \cup {[d |-> [Pos |-> 0, Length |-> l, Char |-> ch, Active |-> TRUE],
                rolled |-> TRUE, reset |-> FALSE] :
                 l \in DropLengths, ch \in DropChars}
    ELSE IF (d.Pos + 1) - d.Length > h
         THEN {[d |-> [Pos |-> 0 - d.Length, Length |-> l, Char |-> ch,
                       Active |-> ~pause],
                rolled |-> FALSE, reset |-> TRUE] :
                 l \in DropLengths, ch \in DropChars, pause \in BOOLEAN}
         ELSE {[d |-> [d EXCEPT !.Pos = @ + 1], rolled |-> FALSE, reset |-> FALSE]}

\* the body of NextFrame's inner loop up to the draw: inactive drops are
\* skipped by the continue, active ones are updated
stepDrop(d, h) ==
    IF ~d.Active
    THEN {[d |-> d, rolled |-> FALSE, reset |-> FALSE]}
    ELSE Update(d, h)

\* an inner loop that takes a drop out of its column when it resets
RECURSIVE stepColumn_dropFinished(_, _)
stepColumn_dropFinished(ds, h) ==
    IF ds = << >>
    THEN {<< >>}
    ELSE {IF x.reset THEN rest ELSE <<x>> \o rest :
            x \in stepDrop(Head(ds), h), rest \in stepColumn_dropFinished(Tail(ds), h)}

\* one column of drops after the inner loop: every combination of outcomes
RECURSIVE stepColumn(_, _)
stepColumn(ds, h) ==
    IF ds = << >>
    THEN {<< >>}
    ELSE {<<x>> \o rest : x \in stepDrop(Head(ds), h), rest \in stepColumn(Tail(ds), h)}

\* all columns after the outer loop
RECURSIVE stepGrid(_, _)
stepGrid(grid, h) ==
    IF grid = << >>
    THEN {<< >>}
    ELSE {<<x>> \o rest : x \in stepColumn(Head(grid), h), rest \in stepGrid(Tail(grid), h)}

\* the draws of NextFrame's loops, in order: drop i of column c (1-based in
\* the model, column c - 1 of the frame) is drawn if it is active after its step
RECURSIVE drawGrid(_, _, _, _)
drawGrid(outcome, c, i, acc) ==
    IF c > Len(outcome)
    THEN acc
    ELSE IF i > Len(outcome[c])
         THEN drawGrid(outcome, c + 1, 1, acc)
         ELSE IF outcome[c][i].d.Active
              THEN LET r == drawDrop(outcome[c][i].d, acc.frame, c - 1)
                   IN  drawGrid(outcome, c, i + 1,
                                [frame |-> r.frame,
                                 touched |-> acc.touched \cup r.touched,
                                 drawn |-> acc.drawn \cup {<<c, i>>},
                                 panicked |-> acc.panicked \/ r.panicked])
              ELSE drawGrid(outcome, c, i + 1, acc)

\* Parse accepts a density from 0.1 to 3.0; in tenths
MinDensity10 == 1
MaxDensity10 == 30

\* a drop count that is the whole part of the density
numDropsFor_floor(density10) ==
    density10 \div 10

\* Resize: numDrops := int(e.density + 0.5), at least 1; the density in tenths
numDropsFor(density10) ==
    max((density10 + 5) \div 10, 1)

numDrops == numDropsFor(Density10)

\* the random values one NewDrop call consumes: three Intn for Pos and
\* Length, one Intn for Char
NewDropRandoms == 4

\* Resize(h, w) on an engine of another size: the grids it can build
resizeDrops(h, w) ==
    [1..w -> [1..numDrops -> NewDrop(h)]]

\* GetSize(): an error, or a height and width of at least 1
EngineSizes ==
    {d \in (1..MaxHeight) \X (1..MaxWidth) : d[1] * d[2] <= MaxArea}

SizeResultsOf(sizes) ==
    {[err |-> TRUE, h |-> 0, w |-> 0]}
    \cup {[err |-> FALSE, h |-> d[1], w |-> d[2]] : d \in sizes}

SizeResults == SizeResultsOf(EngineSizes)

\* a size check that does not look at the error
sizeChanged_ignoreErr(sz, h, w) ==
    sz.h # h \/ sz.w # w

\* a size check that looks at the height alone
sizeChanged_heightOnly(sz, h, w) ==
    ~sz.err /\ sz.h # h

\* the condition under which NextFrame calls Resize
sizeChanged(sz, h, w) ==
    ~sz.err /\ (sz.h # h \/ sz.w # w)

\* ---------------------------------------------------------- construction
\* the Config fields NewEngine checks; the probabilities are in tenths
Config(n, lo, hi, re, pa) ==
    [CharSetLen |-> n, MinDropLength |-> lo, MaxDropLength |-> hi,
     ReactivateChance |-> re, PauseChance |-> pa, BaseColor |-> BaseColor]

\* the configuration of the engine modelled here
DefaultConfig ==
    Config(Len(CharSet), MinDropLength, MaxDropLength, 0, 1)

\* probabilities in tenths: below 0, 0, 0.5, 1 and above 1
Chances == {0 - 1, 0, 5, 10, 11}

Configs ==
    {Config(n, lo, hi, re, pa) :
        n \in 0..MaxConfigChars, lo \in (0 - 1)..MaxConfigLength,
        hi \in (0 - 1)..MaxConfigLength, re \in Chances, pa \in Chances}

\* defaultConfigData.ColorThemes
ThemeColors ==
    {<<0, 255, 0>>, <<255, 191, 0>>, <<255, 0, 0>>, <<255, 165, 0>>,
     <<0, 150, 255>>, <<128, 0, 255>>, <<0, 255, 255>>, <<255, 20, 147>>,
     <<255, 255, 255>>}

\* the base colours tried: the themes, and every value a channel can have
BaseColors == ThemeColors \cup {<<v, v, v>> : v \in 0..MaxChannel}

\* the valid configuration with each of the base colours
ColorConfigs == {[DefaultConfig EXCEPT !.BaseColor = c] : c \in BaseColors}

\* NewEngine(cfg, random, terminal): an error or an engine
NewEngine(cfg) ==
    IF cfg.CharSetLen = 0
    THEN "error"
    ELSE IF cfg.MinDropLength <= 0 \/ cfg.MaxDropLength < cfg.MinDropLength
    THEN "error"
    ELSE IF cfg.ReactivateChance < 0 \/ cfg.PauseChance < 0
    THEN "error"
    ELSE "engine"

\* the goroutines that may call Screen.Draw
Goroutines == 1..MaxGoroutines

\* ================================================================= state
VARIABLES
    height,         \* Engine.height
    width,          \* Engine.width
    drops,          \* Engine.drops: per column (1..width) a sequence of drops
    frameBuffer,    \* Engine.frameBuffer: Nil or a reference to a frame
    heap,           \* the frame objects, by reference
    panicked,       \* a Go runtime panic has ended the program
    previousFrame,  \* Screen.previousFrame: Nil or a reference
    written,        \* the writes the latest Draw made to Screen.out
    term,           \* the terminal that receives Screen.out
    lastOp,         \* the operation that produced this state
    repeated,       \* the latest Draw got the frame of the Draw before it, untouched
    tick,           \* what the latest NextFrame call did
    ctor,           \* a Config and what NewEngine returned for it
    callers,        \* the goroutines that call Screen.Draw, each with its position
    run             \* MatrixRain.Run: its position, its context, what it has drawn

vars == <<height, width, drops, frameBuffer, heap, panicked, previousFrame,
          written, term, lastOp, repeated, tick, ctor, callers, run>>

otherVars == <<ctor, callers, run>>

engineVars == <<height, width, drops, frameBuffer, heap, panicked, tick>>

screenVars == <<previousFrame, written, term, repeated>>

DrawOps == {"DrawFull", "DrawDelta"}

\* no NextFrame call yet
NoTick ==
    [sizeErr |-> FALSE, resized |-> FALSE, resizedDrops |-> << >>,
     rolls |-> {}, resets |-> {}, touched |-> {}, err |-> FALSE,
     queried |-> <<0, 0>>, updated |-> {}, allocated |-> FALSE,
     randoms |-> 0, args |-> <<0, 0>>, drawn |-> {}]

\* the configuration Parse returns and the engine NewEngine made of it
DefaultCtor ==
    [cfg |-> DefaultConfig, result |-> NewEngine(DefaultConfig),
     trailColors |-> trailColors]

\* no goroutine is inside Screen.Draw
NoCallers == [g \in Goroutines |-> [at |-> "idle", full |-> FALSE]]

\* Run has not been called
NoRun ==
    [at |-> "new", cancelled |-> FALSE, cancelledAt |-> "", undrawn |-> 0,
     draws |-> 0, setups |-> 0, restores |-> 0]

\* ------------------------------------------------- Screen specification
\* NewScreen, and a frame buffer as the first Resize installs it
InitScreen ==
    /\ \E d \in ScreenDims :
          /\ height = d[1]
          /\ width = d[2]
          /\ frameBuffer = 1
          /\ heap = [r \in Refs |-> IF r = 1 THEN NewFrame(d[1], d[2]) ELSE NoFrame]
          /\ term = FreshTerm(d[1], d[2])
    /\ drops = << >>
    /\ panicked = FALSE
    /\ tick = NoTick
    /\ previousFrame = Nil
    /\ written = << >>
    /\ lastOp = "Init"
    /\ repeated = FALSE
    /\ ctor = DefaultCtor
    /\ callers = NoCallers
    /\ run = NoRun

\* Screen.Draw(frameBuffer): what the call does to the Screen, its output and
\* the terminal
Draw ==
    LET c == drawCache(heap, previousFrame, frameBuffer)
        o == drawOutput(heap, previousFrame, frameBuffer)
        full == needsFull(previousFrame,
                          heap[IF previousFrame = Nil THEN frameBuffer
                               ELSE previousFrame],
                          heap[frameBuffer])
    IN  /\ heap' = c.heap
        /\ previousFrame' = c.previousFrame
        /\ written' = o
        /\ term' = applyWrites(term, o, 1)
        /\ lastOp' = IF full THEN "DrawFull" ELSE "DrawDelta"
        /\ repeated' = (lastOp \in DrawOps)
        /\ UNCHANGED <<height, width, drops, frameBuffer, panicked, tick>>

\* a caller draws the frame buffer
ScreenDraw == Draw /\ UNCHANGED otherVars

\* the owner of the frame writes a glyph into one cell, as drawDrop does
FrameWrite ==
    \E row \in 0..(heap[frameBuffer].height - 1),
       col \in 0..(heap[frameBuffer].width - 1),
       ch \in ScreenGlyphs, color \in ScreenColors :
        /\ heap' = [heap EXCEPT ![frameBuffer] = writeCell(@, row, col, ch, color)]
        /\ heap' # heap
        /\ lastOp' = "FrameWrite"
        /\ written' = << >>
        /\ repeated' = FALSE
        /\ UNCHANGED <<height, width, drops, frameBuffer, panicked, tick,
                       previousFrame, term, otherVars>>

\* the owner of the frame clears it, as NextFrame does at the start of a tick
FrameClear ==
    /\ heap' = [heap EXCEPT ![frameBuffer] = clear(@)]
    /\ heap' # heap
    /\ lastOp' = "FrameClear"
    /\ written' = << >>
    /\ repeated' = FALSE
    /\ UNCHANGED <<height, width, drops, frameBuffer, panicked, tick,
                   previousFrame, term, otherVars>>

\* the terminal window is resized and the owner replaces its frame by a new
\* one of the new size, as Resize does
FrameNew ==
    \E d \in ScreenDims :
        /\ d # <<height, width>>
        /\ height' = d[1]
        /\ width' = d[2]
        /\ LET live == {previousFrame} \ {Nil}
               n == Alloc(live)
           IN  /\ frameBuffer' = n
               /\ heap' = [Collect(heap, live) EXCEPT ![n] = NewFrame(d[1], d[2])]
        /\ term' = resizeTerm(term, d[1], d[2])
        /\ lastOp' = "FrameNew"
        /\ written' = << >>
        /\ repeated' = FALSE
        /\ UNCHANGED <<drops, panicked, tick, previousFrame, otherVars>>

NextScreen == ScreenDraw \/ FrameWrite \/ FrameClear \/ FrameNew

SpecScreen == InitScreen /\ [][NextScreen]_vars

\* ------------------------------------------------- Engine specification
\* NewEngine and NewScreen: no size, no drops, no frame buffer yet
InitEngine ==
    /\ height = 0
    /\ width = 0
    /\ drops = << >>
    /\ frameBuffer = Nil
    /\ heap = [r \in Refs |-> NoFrame]
    /\ panicked = FALSE
    /\ tick = NoTick
    /\ previousFrame = Nil
    /\ written = << >>
    /\ term = FreshTerm(0, 0)
    /\ lastOp = "NewEngine"
    /\ repeated = FALSE
    /\ ctor = DefaultCtor
    /\ callers = NoCallers
    /\ run = NoRun

\* a Resize without the early return for an unchanged size
Resize_always(h, w, curH, curW, curDrops) ==
    IF w >= 1 /\ NewDrop(h) = {}
    THEN {[height |-> h, width |-> w, drops |-> [c \in 1..w |-> << >>],
           resized |-> FALSE, panicked |-> TRUE, err |-> FALSE, randoms |-> 1]}
    ELSE {[height |-> h, width |-> w, drops |-> g,
           resized |-> TRUE, panicked |-> FALSE, err |-> FALSE,
           randoms |-> w * numDrops * NewDropRandoms] :
             g \in resizeDrops(h, w)}

\* Engine.Resize(h, w) on an engine of size curH x curW: the outcomes.
\* resized: the drop grid was rebuilt and a new frame must be installed;
\* panicked: NewDrop's random.Intn panicked; err: NewDrop returned an error.
Resize(h, w, curH, curW, curDrops) ==
    IF h = curH /\ w = curW
    THEN {[height |-> curH, width |-> curW, drops |-> curDrops,
           resized |-> FALSE, panicked |-> FALSE, err |-> FALSE, randoms |-> 0]}
    ELSE IF w >= 1 /\ Len(CharSet) = 0
    THEN {[height |-> h, width |-> w, drops |-> [c \in 1..w |-> << >>],
           resized |-> FALSE, panicked |-> FALSE, err |-> TRUE, randoms |-> 0]}
    ELSE IF w >= 1 /\ NewDrop(h) = {}
    THEN {[height |-> h, width |-> w, drops |-> [c \in 1..w |-> << >>],
           resized |-> FALSE, panicked |-> TRUE, err |-> FALSE, randoms |-> 1]}
    ELSE {[height |-> h, width |-> w, drops |-> g,
           resized |-> TRUE, panicked |-> FALSE, err |-> FALSE,
           randoms |-> w * numDrops * NewDropRandoms] :
             g \in resizeDrops(h, w)}

\* a Resize that makes a new frame whether or not it rebuilt the grid
InstallFrame_always(r) ==
    LET live == {previousFrame} \ {Nil}
        n == Alloc(live)
    IN  [frameBuffer |-> n,
         heap |-> [Collect(heap, live) EXCEPT ![n] = NewFrame(r.height, r.width)],
         allocated |-> TRUE]

\* the frame buffer after Resize: a new frame object when the grid was rebuilt
InstallFrame(r) ==
    IF r.resized
    THEN LET live == {previousFrame} \ {Nil}
             n == Alloc(live)
         IN  [frameBuffer |-> n,
              heap |-> [Collect(heap, live) EXCEPT ![n] = NewFrame(r.height, r.width)],
              allocated |-> TRUE]
    ELSE [frameBuffer |-> frameBuffer, heap |-> heap, allocated |-> FALSE]

\* NewMatrixRain: the first engine.Resize(height, width), with the size the
\* terminal reported
NewMatrixRain(sizes) ==
    /\ lastOp = "NewEngine"
    /\ \E d \in sizes : \E r \in Resize(d[1], d[2], height, width, drops) :
          LET f == InstallFrame(r)
          IN  /\ height' = r.height
              /\ width' = r.width
              /\ drops' = r.drops
              /\ panicked' = r.panicked
              /\ frameBuffer' = f.frameBuffer
              /\ heap' = f.heap
              /\ tick' = [tick EXCEPT !.queried = d, !.resized = r.resized,
                                        !.allocated = f.allocated,
                                        !.randoms = r.randoms, !.args = d]
    /\ lastOp' = "Resize"
    /\ UNCHANGED <<previousFrame, written, repeated>>

\* the engine is set up
EngineStart == NewMatrixRain(EngineSizes) /\ UNCHANGED <<term, otherVars>>

\* Engine.NextFrame(): what the call does to the engine and its frame buffer
NextFrame(results) ==
    /\ frameBuffer # Nil
    /\ ~panicked
    /\ \E sz \in results :
       \E r \in (IF sizeChanged(sz, height, width)
                 THEN Resize(sz.h, sz.w, height, width, drops)
                 ELSE Resize(height, width, height, width, drops)) :
          LET f == InstallFrame(r)
          IN  IF r.panicked \/ r.err
              THEN /\ height' = r.height
                   /\ width' = r.width
                   /\ drops' = r.drops
                   /\ panicked' = r.panicked
                   /\ UNCHANGED <<frameBuffer, heap>>
                   /\ tick' = [NoTick EXCEPT !.sizeErr = sz.err, !.err = r.err,
                                              !.queried = IF sz.err THEN tick.queried
                                                          ELSE <<sz.h, sz.w>>,
                                              !.randoms = r.randoms,
                                              !.args = <<sz.h, sz.w>>]
              ELSE \E g \in stepGrid(r.drops, r.height) :
                   LET dr == drawGrid(g, 1, 1,
                                [frame |-> clear(f.heap[f.frameBuffer]),
                                 touched |-> {}, drawn |-> {},
                                 panicked |-> FALSE])
                   IN  /\ height' = r.height
                       /\ width' = r.width
                       /\ drops' = [c \in DOMAIN g |-> [i \in DOMAIN g[c] |-> g[c][i].d]]
                       /\ panicked' = dr.panicked
                       /\ frameBuffer' = f.frameBuffer
                       /\ heap' = [f.heap EXCEPT ![f.frameBuffer] = dr.frame]
                       /\ tick' = [sizeErr |-> sz.err,
                                   resized |-> r.resized,
                                   resizedDrops |-> IF r.resized THEN r.drops ELSE << >>,
                                   rolls |-> {<<c, i>> \in
                                       UNION {{c} \X DOMAIN g[c] : c \in DOMAIN g} :
                                           g[c][i].rolled},
                                   resets |-> {[col |-> ci[1], i |-> ci[2],
                                                oldLength |-> r.drops[ci[1]][ci[2]].Length] :
                                       ci \in {x \in UNION {{c} \X DOMAIN g[c] : c \in DOMAIN g} :
                                                 g[x[1]][x[2]].reset}},
                                   touched |-> dr.touched,
                                   drawn |-> dr.drawn,
                                   err |-> FALSE,
                                   queried |-> IF sz.err THEN tick.queried
                                               ELSE <<sz.h, sz.w>>,
                                   updated |-> {<<c, i>> \in
                                       UNION {{c} \X DOMAIN g[c] : c \in DOMAIN g} :
                                           r.drops[c][i].Active},
                                   allocated |-> f.allocated,
                                   randoms |-> r.randoms,
                                   args |-> IF sizeChanged(sz, height, width)
                                            THEN <<sz.h, sz.w>> ELSE <<0, 0>>]
    /\ lastOp' = "NextFrame"
    /\ UNCHANGED <<previousFrame, written, repeated>>

\* a caller asks the engine for its next frame
EngineNextFrame == NextFrame(SizeResults) /\ UNCHANGED <<term, otherVars>>

NextEngine == EngineStart \/ EngineNextFrame

SpecEngine == InitEngine /\ [][NextEngine]_vars

\* -------------------------------------------------- calls specification
\* NextFrame, and Resize called directly, in any order, with these sizes.
CallSizes == {<<2, 1>>, <<2, 2>>}

CallsStart == NewMatrixRain(CallSizes) /\ UNCHANGED <<term, otherVars>>

CallsNextFrame ==
    NextFrame(SizeResultsOf(CallSizes)) /\ UNCHANGED <<term, otherVars>>

\* e.Resize(h, w)
EngineResize ==
    /\ frameBuffer # Nil
    /\ ~panicked
    /\ \E d \in CallSizes : \E r \in Resize(d[1], d[2], height, width, drops) :
          LET f == InstallFrame(r)
          IN  /\ height' = r.height
              /\ width' = r.width
              /\ drops' = r.drops
              /\ panicked' = r.panicked
              /\ frameBuffer' = f.frameBuffer
              /\ heap' = f.heap
              /\ tick' = [NoTick EXCEPT !.queried = tick.queried,
                                          !.resized = r.resized,
                                          !.resizedDrops = IF r.resized THEN r.drops
                                                           ELSE << >>,
                                          !.allocated = f.allocated,
                                          !.randoms = r.randoms,
                                          !.args = d]
    /\ lastOp' = "Resize"
    /\ UNCHANGED <<previousFrame, written, repeated, term, otherVars>>

NextCalls == CallsStart \/ CallsNextFrame \/ EngineResize

SpecCalls == InitEngine /\ [][NextCalls]_vars

\* ------------------------------------------------- update specification
\* NextFrame, and Update called directly on a drop of the grid, in any
\* order, in a window of one column and two or three rows.
UpdateSizes == {<<2, 1>>, <<3, 1>>}

UpdateStart == NewMatrixRain(UpdateSizes) /\ UNCHANGED <<term, otherVars>>

UpdateNextFrame ==
    NextFrame(SizeResultsOf(UpdateSizes)) /\ UNCHANGED <<term, otherVars>>

\* e.Update(drop, e.height) on one drop of the grid
EngineUpdate ==
    /\ frameBuffer # Nil
    /\ ~panicked
    /\ \E c \in DOMAIN drops : \E i \in DOMAIN drops[c] :
       \E o \in Update(drops[c][i], height) :
          /\ drops' = [drops EXCEPT ![c][i] = o.d]
          /\ tick' = [NoTick EXCEPT
                !.queried = tick.queried,
                !.updated = {<<c, i>>},
                !.rolls = IF o.rolled THEN {<<c, i>>} ELSE {},
                !.resets = IF o.reset
                           THEN {[col |-> c, i |-> i, oldLength |-> drops[c][i].Length]}
                           ELSE {}]
    /\ lastOp' = "Update"
    /\ UNCHANGED <<height, width, frameBuffer, heap, panicked, previousFrame,
                   written, repeated, term, otherVars>>

NextUpdate == UpdateStart \/ UpdateNextFrame \/ EngineUpdate

SpecUpdate == InitEngine /\ [][NextUpdate]_vars

----------------------------------------------------------------------------
\* The run loop's ticks on a terminal whose size stays the same: the ticker
\* goes on firing, so a NextFrame call that can be made is made

\* the window sizes of the steady run: one column of two or three rows
SteadySizes == {<<2, 1>>, <<3, 1>>}

SteadyStart == NewMatrixRain(SteadySizes) /\ UNCHANGED <<term, otherVars>>

\* NextFrame while GetSize fails or reports the size the engine has
SteadyTick ==
    /\ NextFrame(SizeResultsOf({<<height, width>>}))
    /\ UNCHANGED <<term, otherVars>>

NextSteady == SteadyStart \/ SteadyTick

SpecSteady == InitEngine /\ [][NextSteady]_vars /\ WF_vars(SteadyTick)

\* ------------------------------------------- construction specification
\* a configuration is handed to NewEngine
InitConfig ==
    /\ height = 0
    /\ width = 0
    /\ drops = << >>
    /\ frameBuffer = Nil
    /\ heap = [r \in Refs |-> NoFrame]
    /\ panicked = FALSE
    /\ tick = NoTick
    /\ previousFrame = Nil
    /\ written = << >>
    /\ term = FreshTerm(0, 0)
    /\ lastOp = "Config"
    /\ repeated = FALSE
    /\ \E c \in Configs \cup ColorConfigs :
          ctor = [cfg |-> c, result |-> "none", trailColors |-> << >>]
    /\ callers = NoCallers
    /\ run = NoRun

\* NewEngine(cfg, random, terminal)
CallNewEngine ==
    /\ ctor.result = "none"
    /\ ctor' = [ctor EXCEPT
          !.result = NewEngine(ctor.cfg),
          !.trailColors = IF NewEngine(ctor.cfg) = "engine"
                          THEN calcTrailColorsOf(ctor.cfg.BaseColor, 5)
                          ELSE << >>]
    /\ lastOp' = "NewEngine"
    /\ UNCHANGED <<height, width, drops, frameBuffer, heap, panicked, tick,
                   previousFrame, written, term, repeated, callers, run>>

NextConfig == CallNewEngine

SpecConfig == InitConfig /\ [][NextConfig]_vars

----------------------------------------------------------------------------
\* ConfigParser.Parse: the command-line flags and what Parse returns for them

\* strings are tuples of one-character strings
UpperRunes == <<"A", "B", "C", "D", "E", "F", "G", "H", "I", "J", "K", "L", "M", "N", "O", "P", "Q", "R", "S", "T", "U", "V", "W", "X", "Y", "Z">>
LowerRunes == <<"a", "b", "c", "d", "e", "f", "g", "h", "i", "j", "k", "l", "m", "n", "o", "p", "q", "r", "s", "t", "u", "v", "w", "x", "y", "z">>

\* unicode.ToLower on the runes the flags tried are made of
ToLowerRune(r) ==
    IF \E i \in DOMAIN UpperRunes : UpperRunes[i] = r
    THEN LowerRunes[CHOOSE i \in DOMAIN UpperRunes : UpperRunes[i] = r]
    ELSE r

\* strings.ToLower
ToLower(str) == [i \in DOMAIN str |-> ToLowerRune(str[i])]

\* defaultConfigData.ColorThemes, the map as its set of entries
ColorThemes ==
    {[name |-> <<"g", "r", "e", "e", "n">>, color |-> <<0, 255, 0>>],
     [name |-> <<"a", "m", "b", "e", "r">>, color |-> <<255, 191, 0>>],
     [name |-> <<"r", "e", "d">>, color |-> <<255, 0, 0>>],
     [name |-> <<"o", "r", "a", "n", "g", "e">>, color |-> <<255, 165, 0>>],
     [name |-> <<"b", "l", "u", "e">>, color |-> <<0, 150, 255>>],
     [name |-> <<"p", "u", "r", "p", "l", "e">>, color |-> <<128, 0, 255>>],
     [name |-> <<"c", "y", "a", "n">>, color |-> <<0, 255, 255>>],
     [name |-> <<"p", "i", "n", "k">>, color |-> <<255, 20, 147>>],
     [name |-> <<"w", "h", "i", "t", "e">>, color |-> <<255, 255, 255>>]}

\* defaultConfigData.CharSets, the entry the flags tried can name
CharSets ==
    {[name |-> <<"b", "i", "n", "a", "r", "y">>, set |-> <<"0", "1">>]}

\* a float64 flag value: a number of hundredths, or NaN, which
\* strconv.ParseFloat accepts and which compares false with everything
Float(v) == [nan |-> FALSE, v |-> v]
NaN == [nan |-> TRUE, v |-> 0]
FloatLess(a, b) == ~a.nan /\ ~b.nan /\ a.v < b.v

\* the values of the flags tried
ColorNames ==
    {<<"g", "r", "e", "e", "n">>, <<"G", "r", "E", "e", "N">>, <<"R", "E", "D">>, <<"g", "r", "e", "y">>, << >>}
FpsValues == {0 - 1, 0, 1, 10, 60, 61}
DensityValues == {Float(0), Float(9), Float(10), Float(70), Float(300), Float(301), NaN}
CharSetNames ==
    {<<"b", "i", "n", "a", "r", "y">>, <<"B", "I", "N", "A", "R", "Y">>, <<"x", "y">>, << >>}
Flags ==
    [colorName : ColorNames, fps : FpsValues, density : DensityValues,
     listOptions : BOOLEAN, charSetName : CharSetNames]

\* the drop lengths of the Config that Parse returns
ParseMinDropLength == 8
ParseMaxDropLength == 20

\* resolveCharSet(name): a named set, an error for the empty string, or the
\* runes of the string itself
resolveCharSet(name) ==
    IF \E e \in CharSets : e.name = ToLower(name)
    THEN [set |-> (CHOOSE e \in CharSets : e.name = ToLower(name)).set, err |-> ""]
    ELSE IF name = << >>
    THEN [set |-> << >>, err |-> "character set cannot be empty"]
    ELSE [set |-> name, err |-> ""]

\* Parse(): the Config returned (none for nil) and the error ("" for nil)
Parse(f) ==
    IF f.listOptions
    THEN [cfg |-> {}, err |-> "list options requested"]
    ELSE IF ~\E e \in ColorThemes : e.name = ToLower(f.colorName)
    THEN [cfg |-> {}, err |-> "unknown color theme"]
    ELSE IF f.fps < 1 \/ f.fps > 60
    THEN [cfg |-> {}, err |-> "fps out of range (1-60)"]
    ELSE IF FloatLess(f.density, Float(10)) \/ FloatLess(Float(300), f.density)
    THEN [cfg |-> {}, err |-> "density out of range (0.1-3.0)"]
    ELSE IF resolveCharSet(f.charSetName).err # ""
    THEN [cfg |-> {}, err |-> resolveCharSet(f.charSetName).err]
    ELSE [cfg |-> {[BaseColor |-> (CHOOSE e \in ColorThemes :
                                      e.name = ToLower(f.colorName)).color,
                    FPS |-> f.fps,
                    Density |-> f.density,
                    CharSet |-> resolveCharSet(f.charSetName).set,
                    MinDropLength |-> ParseMinDropLength,
                    MaxDropLength |-> ParseMaxDropLength,
                    ReactivateChance |-> <<1, 100>>,
                    PauseChance |-> <<1, 10>>]},
          err |-> ""]

InitParse ==
    /\ height = 0
    /\ width = 0
    /\ drops = << >>
    /\ frameBuffer = Nil
    /\ heap = [r \in Refs |-> NoFrame]
    /\ panicked = FALSE
    /\ tick = NoTick
    /\ previousFrame = Nil
    /\ written = << >>
    /\ term = FreshTerm(0, 0)
    /\ lastOp = "Flags"
    /\ repeated = FALSE
    /\ \E f \in Flags : ctor = [flags |-> f, cfg |-> {}, err |-> ""]
    /\ callers = NoCallers
    /\ run = NoRun

\* NewConfigParser(defaultConfigData).Parse()
CallParse ==
    /\ lastOp = "Flags"
    /\ ctor' = [ctor EXCEPT !.cfg = Parse(ctor.flags).cfg,
                            !.err = Parse(ctor.flags).err]
    /\ lastOp' = "Parse"
    /\ UNCHANGED <<height, width, drops, frameBuffer, heap, panicked, tick,
                   previousFrame, written, term, repeated, callers, run>>

NextParse == CallParse

SpecParse == InitParse /\ [][NextParse]_vars

\* ------------------------------------- concurrent callers specification
\* Screen.Draw(frameBuffer) called by several goroutines on one Screen.  Draw
\* takes no lock, so its statements interleave: the test of its if, the
\* render, the assignment of a new previousFrame, the copyFrame.
DrawDims == {d \in ScreenDims : d[1] = 1}

AllIdle == \A g \in Goroutines : callers[g].at = "idle"

InitDraws ==
    /\ \E d \in DrawDims :
          /\ height = d[1]
          /\ width = d[2]
          /\ frameBuffer = 1
          /\ heap = [r \in Refs |-> IF r = 1 THEN NewFrame(d[1], d[2]) ELSE NoFrame]
          /\ term = FreshTerm(d[1], d[2])
    /\ drops = << >>
    /\ panicked = FALSE
    /\ tick = NoTick
    /\ previousFrame = Nil
    /\ written = << >>
    /\ lastOp = "Init"
    /\ repeated = FALSE
    /\ ctor = DefaultCtor
    /\ callers = NoCallers
    /\ run = NoRun

\* the test of Draw's if statement
DrawEnter(g) ==
    /\ callers[g].at = "idle"
    /\ callers' = [callers EXCEPT ![g] =
          [at |-> "render",
           full |-> needsFull(previousFrame,
                              heap[IF previousFrame = Nil THEN frameBuffer
                                   ELSE previousFrame],
                              heap[frameBuffer])]]
    /\ lastOp' = "DrawEnter"
    /\ UNCHANGED <<height, width, drops, frameBuffer, heap, panicked, tick,
                   previousFrame, written, term, repeated, ctor, run>>

\* s.fullRender(frame) or s.deltaRender(frame), as the test decided; the
\* delta render reads the previousFrame of this moment
DrawRender(g) ==
    /\ callers[g].at = "render"
    /\ LET o == IF callers[g].full
                THEN fullRender(heap[frameBuffer])
                ELSE deltaRender(heap[frameBuffer], heap[previousFrame])
       IN  /\ written' = o
           /\ term' = applyWrites(term, o, 1)
    /\ callers' = [callers EXCEPT ![g].at = IF callers[g].full THEN "alloc" ELSE "copy"]
    /\ lastOp' = "DrawRender"
    /\ UNCHANGED <<height, width, drops, frameBuffer, heap, panicked, tick,
                   previousFrame, repeated, ctor, run>>

\* s.previousFrame = NewFrame(frame.height, frame.width)
DrawAlloc(g) ==
    /\ callers[g].at = "alloc"
    /\ LET n == Alloc({frameBuffer})
       IN  /\ previousFrame' = n
           /\ heap' = [Collect(heap, {frameBuffer}) EXCEPT
                          ![n] = NewFrame(heap[frameBuffer].height,
                                          heap[frameBuffer].width)]
    /\ callers' = [callers EXCEPT ![g].at = "copy"]
    /\ lastOp' = "DrawAlloc"
    /\ UNCHANGED <<height, width, drops, frameBuffer, panicked, tick,
                   written, term, repeated, ctor, run>>

\* s.copyFrame(frame, s.previousFrame), into the previousFrame of this moment
DrawCopy(g) ==
    /\ callers[g].at = "copy"
    /\ heap' = [heap EXCEPT ![previousFrame] = copyFrame(heap[frameBuffer], @)]
    /\ callers' = [callers EXCEPT ![g].at = "idle"]
    /\ lastOp' = "DrawCopy"
    /\ UNCHANGED <<height, width, drops, frameBuffer, panicked, tick,
                   previousFrame, written, term, repeated, ctor, run>>

\* between the calls the owner of the frame draws into it or clears it
OwnerWrite == AllIdle /\ FrameWrite

OwnerClear == AllIdle /\ FrameClear

NextDraws ==
    \/ \E g \in Goroutines : DrawEnter(g)
    \/ \E g \in Goroutines : DrawRender(g)
    \/ \E g \in Goroutines : DrawAlloc(g)
    \/ \E g \in Goroutines : DrawCopy(g)
    \/ OwnerWrite
    \/ OwnerClear

SpecDraws == InitDraws /\ [][NextDraws]_vars

\* ---------------------------------------------------- run specification
\* MatrixRain.Run.  run.at is the position of the loop: "select" at the select
\* statement, "draw" between NextFrame's return and the call of Draw,
\* "returned" after a return, "crashed" after a panic.  run.undrawn counts the
\* frames NextFrame returned that Draw has not been given, run.draws the
\* Draw calls made with the latest frame.
InitRun == InitEngine

\* the window sizes of the run: one column, and a second one that comes and goes
RunSizes == {<<2, 1>>, <<2, 2>>}

\* the terminal window has the size GetSize reported
windowAfter(t, h, w) ==
    IF t.rows = h /\ t.cols = w THEN t ELSE resizeTerm(t, h, w)

\* a tick case that goes back to the select without drawing
afterNextFrame_noDraw(err, crashed) ==
    IF crashed THEN "crashed" ELSE IF err THEN "returned" ELSE "select"

\* where the loop goes after the NextFrame call of the tick case
afterNextFrame(err, crashed) ==
    IF crashed THEN "crashed" ELSE IF err THEN "returned" ELSE "draw"

\* a cancellation that is acted on wherever the loop is
mayReturn_anywhere(at, cancelled) ==
    at \in {"select", "draw"} /\ cancelled

\* the case <-r.ctx.Done() can be taken
mayReturn(at, cancelled) ==
    at = "select" /\ cancelled

\* a Run that restores the terminal in its loop as well as on its way out
restoresOn_everyTick(at) ==
    IF at \in {"returned", "crashed", "draw"} THEN 1 ELSE 0

\* the calls of the deferred r.terminal.Restore() when the loop goes to at:
\* one when Run returns or panics, none while it goes on
restoresOn(at) ==
    IF at \in {"returned", "crashed"} THEN 1 ELSE 0

\* NewMatrixRain builds the engine and the screen
RunNew ==
    /\ NewMatrixRain(RunSizes)
    /\ term' = windowAfter(term, height', width')
    /\ UNCHANGED otherVars

\* Run is called: Setup, the ticker, then the loop
RunSetup ==
    /\ run.at = "new"
    /\ lastOp = "Resize"
    /\ ~panicked
    /\ run' = [run EXCEPT !.at = "select", !.setups = @ + 1]
    /\ UNCHANGED <<height, width, drops, frameBuffer, heap, panicked, tick,
                   previousFrame, written, term, lastOp, repeated, ctor, callers>>

\* an interrupt or SIGTERM cancels the context, at any moment
Cancel ==
    /\ run.at \in {"select", "draw"}
    /\ ~run.cancelled
    /\ run' = [run EXCEPT !.cancelled = TRUE, !.cancelledAt = run.at]
    /\ UNCHANGED <<height, width, drops, frameBuffer, heap, panicked, tick,
                   previousFrame, written, term, lastOp, repeated, ctor, callers>>

\* case <-tick.C: frame, err := r.engine.NextFrame()
RunTick ==
    /\ run.at = "select"
    /\ NextFrame(SizeResultsOf(RunSizes))
    /\ term' = windowAfter(term, height', width')
    /\ run' = [run EXCEPT
          !.at = afterNextFrame(tick'.err, panicked'),
          !.restores = @ + restoresOn(afterNextFrame(tick'.err, panicked')),
          !.undrawn = IF tick'.err \/ panicked' THEN @ ELSE @ + 1,
          !.draws = IF tick'.err \/ panicked' THEN @ ELSE 0]
    /\ UNCHANGED <<ctor, callers>>

\* r.screen.Draw(frame)
RunDraw ==
    /\ run.at = "draw"
    /\ Draw
    /\ run' = [run EXCEPT !.at = "select", !.undrawn = @ - 1, !.draws = @ + 1]
    /\ UNCHANGED <<ctor, callers>>

\* case <-r.ctx.Done(): return nil
RunReturn ==
    /\ mayReturn(run.at, run.cancelled)
    /\ run' = [run EXCEPT !.at = "returned", !.restores = @ + restoresOn("returned")]
    /\ UNCHANGED <<height, width, drops, frameBuffer, heap, panicked, tick,
                   previousFrame, written, term, lastOp, repeated, ctor, callers>>

NextRun == RunNew \/ RunSetup \/ Cancel \/ RunTick \/ RunDraw \/ RunReturn

SpecRun == InitRun /\ [][NextRun]_vars

\* ================================================================ claims
MutateOps == {"FrameWrite", "FrameClear", "FrameNew"}

SameSize(f, g) == f.height = g.height /\ f.width = g.width

HasGlyph(f) ==
    \E r \in DOMAIN f.isBackground : \E c \in DOMAIN f.isBackground[r] :
        ~f.isBackground[r][c]

HasBackground(f) ==
    \E r \in DOMAIN f.isBackground : \E c \in DOMAIN f.isBackground[r] :
        f.isBackground[r][c]

\* C1: once a frame has been drawn, no later mutation of a frame by its owner
\* (a cell write, a clear, a reallocation) changes any cell of the Screen's
\* cached previous frame, and the cache is never the object handed to Draw.
C1_NoAliasing ==
    /\ [](previousFrame # Nil => previousFrame # frameBuffer)
    /\ [][(previousFrame # Nil /\ lastOp' \in MutateOps)
            => /\ previousFrame' = previousFrame
               /\ heap'[previousFrame] = heap[previousFrame]]_vars

\* a drawn frame was then written to, and the cache kept the drawn content
C1_Witness ==
    /\ lastOp = "FrameWrite"
    /\ previousFrame # Nil
    /\ SameSize(heap[previousFrame], heap[frameBuffer])
    /\ heap[previousFrame].characters # heap[frameBuffer].characters

\* what a terminal shows after a full render of the frame alone
FullRenderShows(f) ==
    visible(applyWrites(FreshTerm(f.height, f.width), fullRender(f), 1),
            f.height, f.width)

\* C2: after every delta render of a frame the terminal shows, in every cell of
\* the frame, the character and colour a full render of that frame alone shows.
C2_DeltaEqualsFull ==
    lastOp = "DrawDelta"
        => visible(term, heap[frameBuffer].height, heap[frameBuffer].width)
             = FullRenderShows(heap[frameBuffer])

\* the 0-based cells a write addresses with a cursor-position sequence that is
\* followed, after at most colour sequences, by a character
EmittedCells(toks) ==
    {<<toks[i].row - 1, toks[i].col - 1>> : i \in
        {i \in DOMAIN toks :
            /\ toks[i].op = "CUP"
            /\ \E j \in DOMAIN toks :
                  /\ j > i
                  /\ toks[j].op = "CHAR"
                  /\ \A k \in (i + 1)..(j - 1) : toks[k].op \in {"SGR", "RESET"}}}

CountOp(toks, op) == Cardinality({i \in DOMAIN toks : toks[i].op = op})

\* the cells in which two frames of one size differ in character or colour
DifferingCells(f, g) ==
    {rc \in (0..(f.height - 1)) \X (0..(f.width - 1)) :
        \/ f.characters[rc[1]][rc[2]] # g.characters[rc[1]][rc[2]]
        \/ f.colors[rc[1]][rc[2]] # g.colors[rc[1]][rc[2]]}

AllWritten(writes) ==
    IF writes = << >> THEN << >> ELSE writes[1]

\* C3: a delta render emits a cursor-position sequence followed by a character
\* for exactly the cells whose character or colour differs from the cached
\* previous frame, once each, and for no other cell.
C3_DeltaEmitsExactlyChanged ==
    [][lastOp' = "DrawDelta"
         => LET toks == AllWritten(written')
                diff == DifferingCells(heap[frameBuffer], heap[previousFrame])
            IN  /\ Len(written') <= 1
                /\ EmittedCells(toks) = diff
                /\ CountOp(toks, "CUP") = Cardinality(diff)
                /\ CountOp(toks, "CHAR") = Cardinality(diff)]_vars

\* a delta render that emitted some cells of the frame and skipped others
C3_Witness ==
    /\ lastOp = "DrawDelta"
    /\ written # << >>
    /\ CountOp(written[1], "CUP") >= 1
    /\ CountOp(written[1], "CUP") < heap[frameBuffer].height * heap[frameBuffer].width

\* C4: a Draw that directly follows a Draw of the same, unmodified frame writes
\* nothing to the output sink.
C4_SecondDrawSilent ==
    [][(lastOp \in DrawOps /\ lastOp' \in DrawOps) => written' = << >>]_vars

\* a frame holding a glyph was drawn twice in a row and the second wrote nothing
C4_Witness ==
    /\ repeated
    /\ lastOp = "DrawDelta"
    /\ written = << >>
    /\ HasGlyph(heap[frameBuffer])

\* C5: after every Draw, full or delta, the cached previous frame has the
\* drawn frame's height and width and its character, colour and is-background
\* grids cell for cell.
C5_CacheEqualsDrawn ==
    lastOp \in DrawOps
        => /\ previousFrame # Nil
           /\ heap[previousFrame].height = heap[frameBuffer].height
           /\ heap[previousFrame].width = heap[frameBuffer].width
           /\ heap[previousFrame].characters = heap[frameBuffer].characters
           /\ heap[previousFrame].colors = heap[frameBuffer].colors
           /\ heap[previousFrame].isBackground = heap[frameBuffer].isBackground

\* a delta render of a frame that holds both glyph and background cells
C5_Witness ==
    /\ lastOp = "DrawDelta"
    /\ written # << >>
    /\ HasGlyph(heap[frameBuffer])
    /\ HasBackground(heap[frameBuffer])

\* the (column, index) pairs of a drop grid
Slots(grid) == UNION {{c} \X DOMAIN grid[c] : c \in DOMAIN grid}

\* the step is a NextFrame call that completed without rebuilding the grid
PlainTick == lastOp' = "NextFrame" /\ ~tick'.resized /\ ~tick'.err /\ ~panicked'

\* an active drop that the coming update moves past height + length
WillReset(d) == d.Active /\ (d.Pos + 1) - d.Length > height

\* C6: on every tick every inactive drop gets a reactivation roll (the
\* premise from which the claim concludes that an inactive drop eventually
\* becomes active again).
C6_InactiveGetsRoll ==
    [][PlainTick
         => \A s \in Slots(drops) :
               ~drops[s[1]][s[2]].Active => s \in tick'.rolls]_vars

\* C7 as claimed: a reset leaves the drop with a length in
\* [MinDropLength, MaxDropLength], a character of the set and a position equal
\* to the negative of the NEW length.
C7_ResetAtMinusNewLength ==
    [][PlainTick
         => \A s \in Slots(drops) :
               WillReset(drops[s[1]][s[2]])
                 => /\ drops'[s[1]][s[2]].Length \in DropLengths
                    /\ drops'[s[1]][s[2]].Char \in DropChars
                    /\ drops'[s[1]][s[2]].Pos = 0 - drops'[s[1]][s[2]].Length]_vars

\* C7 as amended: a reset leaves the drop with a length in
\* [MinDropLength, MaxDropLength], a character of the set and a position equal
\* to the negative of the length the drop had BEFORE the reset.
C7_ResetAtMinusOldLength ==
    [][PlainTick
         => \A s \in Slots(drops) :
               WillReset(drops[s[1]][s[2]])
                 => /\ drops'[s[1]][s[2]].Length \in DropLengths
                    /\ drops'[s[1]][s[2]].Char \in DropChars
                    /\ drops'[s[1]][s[2]].Pos = 0 - drops[s[1]][s[2]].Length]_vars

\* a tick reset a drop and drew it a length other than the one it had
C7_Witness ==
    /\ lastOp = "NextFrame"
    /\ \E x \in tick.resets :
          /\ drops[x.col][x.i].Length # x.oldLength
          /\ drops[x.col][x.i].Pos = 0 - x.oldLength

\* C8: a resize to a larger width leaves the drop lists of the columns that
\* existed before as they were (same drops, same number per column).
C8_ResizeKeepsColumns ==
    [][(lastOp' = "NextFrame" /\ tick'.resized /\ width >= 1 /\ width' > width)
         => \A c \in 1..width : tick'.resizedDrops[c] = drops[c]]_vars

\* C9: every cell drawDrop assigns lies in the drop's own column, in a row of
\* [Pos - Length, Pos] and of [0, height); the frame holds no glyph that was
\* not assigned this way, and no index is out of range.
C9_DrawWithinBounds ==
    /\ \A t \in tick.touched :
          /\ t.row >= t.Pos - t.Length
          /\ t.row <= t.Pos
          /\ t.row >= 0
          /\ t.row < height
          /\ t.col \in 0..(width - 1)
          /\ \E i \in DOMAIN drops[t.col + 1] :
                /\ drops[t.col + 1][i].Active
                /\ drops[t.col + 1][i].Pos = t.Pos
                /\ drops[t.col + 1][i].Length = t.Length
    /\ (lastOp = "NextFrame" /\ ~tick.err /\ ~panicked)
          => \A r \in 0..(height - 1) : \A c \in 0..(width - 1) :
                ~heap[frameBuffer].isBackground[r][c]
                   => \E t \in tick.touched : t.row = r /\ t.col = c
    /\ (tick.touched # {}) => ~panicked

\* one tick drew a drop whose tail is above the frame and a drop whose head
\* is below it
C9_Witness ==
    /\ lastOp = "NextFrame"
    /\ \E t \in tick.touched : t.Pos - t.Length < 0
    /\ \E t \in tick.touched : t.Pos > height - 1

\* C10: a NextFrame call whose size query fails keeps the height, the width,
\* the slots of the drop grid and the frame buffer with its size, advances
\* every active drop, and returns its frame without an error.
C10_SizeErrorKeepsSize ==
    [][(lastOp' = "NextFrame" /\ tick'.sizeErr)
         => /\ height' = height
            /\ width' = width
            /\ ~tick'.resized
            /\ ~tick'.err
            /\ ~panicked'
            /\ frameBuffer' = frameBuffer
            /\ heap'[frameBuffer'].height = heap[frameBuffer].height
            /\ heap'[frameBuffer'].width = heap[frameBuffer].width
            /\ Slots(drops') = Slots(drops)
            /\ \A s \in Slots(drops) :
                  LET d == drops[s[1]][s[2]]
                      e == drops'[s[1]][s[2]]
                  IN  d.Active =>
                        IF WillReset(d) THEN e.Pos = 0 - d.Length
                        ELSE e = [d EXCEPT !.Pos = @ + 1]]_vars

\* a tick whose size query failed still drew a drop into the frame
C10_Witness ==
    /\ lastOp = "NextFrame"
    /\ tick.sizeErr
    /\ HasGlyph(heap[frameBuffer])

\* a configuration NewEngine must refuse
InvalidConfig(cfg) ==
    \/ cfg.CharSetLen = 0
    \/ cfg.MinDropLength <= 0
    \/ cfg.MaxDropLength < cfg.MinDropLength
    \/ cfg.ReactivateChance < 0 \/ cfg.ReactivateChance > 10
    \/ cfg.PauseChance < 0 \/ cfg.PauseChance > 10

\* C11: NewEngine returns an error and no Engine when the character set is
\* empty, when MinDropLength <= 0 or MaxDropLength < MinDropLength, or when
\* ReactivateChance or PauseChance lies outside [0,1].
C11_InvalidConfigRefused ==
    (ctor.result # "none" /\ InvalidConfig(ctor.cfg)) => ctor.result = "error"

\* the goroutine is between the start of its render and the end of its copy
InDraw(g) == callers[g].at # "idle"

\* C12: Draw calls made from two execution contexts on one Screen are
\* serialized: while one Draw is between the start of its render and the end
\* of its cache copy, no other Draw is inside its own render or copy.
C12_DrawsSerialized ==
    \A g \in Goroutines : \A k \in Goroutines :
        (g # k /\ InDraw(g)) => ~InDraw(k)

\* the step is a NextFrame call that returned a frame
ProducesFrame == run'.undrawn = run.undrawn + 1

\* the step is a Draw call
DrawsFrame == run'.draws = run.draws + 1

\* C13: in the run loop tick cycles never overlap: NextFrame is called only
\* when the frame of the call before it has been drawn, Draw gets the frame
\* the latest NextFrame returned, and no frame is drawn twice or left undrawn.
C13_CyclesDoNotOverlap ==
    /\ [](run.undrawn + run.draws <= 1)
    /\ [][/\ ProducesFrame => (run.undrawn = 0 /\ run'.draws = 0)
          /\ DrawsFrame =>
               /\ run.undrawn = 1 /\ run.draws = 0
               /\ lastOp = "NextFrame"
               /\ frameBuffer' = frameBuffer
               /\ heap'[frameBuffer] = heap[frameBuffer]
               /\ heap'[previousFrame'] = heap[frameBuffer]]_vars

\* a second cycle has completed: its frame differed from the one before and
\* was drawn by a delta render
C13_Witness ==
    /\ run.at = "select"
    /\ run.draws = 1
    /\ run.undrawn = 0
    /\ lastOp = "DrawDelta"
    /\ written # << >>

\* C14: cancellation takes effect only between ticks: Run returns only with
\* every frame NextFrame returned drawn, and after Run has returned nothing
\* happens any more (no NextFrame, no Draw).
C14_CancelBetweenTicks ==
    /\ [](run.at = "returned" => run.undrawn = 0)
    /\ [][run.at # "returned"]_vars
    /\ [][(run'.at = "returned" /\ run.cancelled /\ ~tick'.err)
           => (run.at = "select" /\ run.undrawn = 0 /\ lastOp' = lastOp)]_vars

\* the context was cancelled in the middle of a cycle, the frame of that
\* cycle was drawn, and then Run returned
C14_Witness ==
    /\ run.at = "returned"
    /\ run.cancelledAt = "draw"
    /\ lastOp \in DrawOps
    /\ previousFrame # Nil
    /\ heap[previousFrame] = heap[frameBuffer]

\* the output is that of a full render: one write that starts at the home
\* position
IsFullOutput(writes) ==
    Len(writes) = 1 /\ Len(writes[1]) >= 1 /\ writes[1][1].op = "HOME"

\* the output is that of a delta render: no write, or one write that moves
\* the cursor to a cell first and never to the home position
IsDeltaOutput(writes) ==
    \/ writes = << >>
    \/ /\ Len(writes) = 1
       /\ Len(writes[1]) >= 1
       /\ writes[1][1].op = "CUP"
       /\ CountOp(writes[1], "HOME") = 0

\* C15: Draw performs a full render exactly when no previous frame is cached
\* or the cached frame's height or width differs from the incoming frame's; in
\* every other case it performs a delta render.
C15_FullExactlyWhenNeeded ==
    [][lastOp' \in DrawOps
         => IF \/ previousFrame = Nil
               \/ heap[previousFrame].height # heap[frameBuffer].height
               \/ heap[previousFrame].width # heap[frameBuffer].width
            THEN /\ IsFullOutput(written')
                 /\ written' = fullRender(heap[frameBuffer])
            ELSE /\ IsDeltaOutput(written')
                 /\ written' = deltaRender(heap[frameBuffer], heap[previousFrame])
                 /\ previousFrame' = previousFrame]_vars

\* a frame with a glyph and a background cell was rendered in full
C15_Witness ==
    /\ lastOp = "DrawFull"
    /\ IsFullOutput(written)
    /\ HasGlyph(heap[frameBuffer])
    /\ HasBackground(heap[frameBuffer])

\* C16: the output of every full render begins with the cursor-home sequence
\* and ends with the reset-all-attributes sequence, whatever the frame, with
\* a newline-equivalent between rows and none after the last row.
C16_FullRenderFramed ==
    lastOp = "DrawFull"
      => /\ Len(written) = 1
         /\ LET w == written[1]
            IN  /\ Len(w) >= 2
                /\ w[1].op = "HOME"
                /\ w[Len(w)].op = "RESET"
                /\ CountOp(w, "CRLF") = heap[frameBuffer].height - 1
                /\ \A k \in DOMAIN w :
                      w[k].op = "CRLF" => \E j \in (k + 1)..Len(w) : w[j].op = "CHAR"

\* the character written after the cursor-position sequence at index k
CharAfter(toks, k) ==
    toks[CHOOSE j \in (k + 1)..Len(toks) :
            /\ toks[j].op = "CHAR"
            /\ \A i \in (k + 1)..(j - 1) : toks[i].op # "CHAR"].ch

\* C19: every cursor-position sequence of a delta render addresses row + 1
\* and col + 1 of the 0-based cell it is about to write, so every address
\* lies in [1, height] x [1, width] of the frame being drawn.
C19_CursorOneBased ==
    lastOp = "DrawDelta"
      => \A n \in DOMAIN written : \A k \in DOMAIN written[n] :
            LET t == written[n][k]
                f == heap[frameBuffer]
            IN  t.op = "CUP"
                  => /\ t.row \in 1..f.height
                     /\ t.col \in 1..f.width
                     /\ \E j \in (k + 1)..Len(written[n]) : written[n][j].op = "CHAR"
                     /\ CharAfter(written[n], k) = f.characters[t.row - 1][t.col - 1]

\* a delta render addressed the last cell of a frame of more than one row and
\* more than one column
C19_Witness ==
    /\ lastOp = "DrawDelta"
    /\ heap[frameBuffer].height > 1
    /\ heap[frameBuffer].width > 1
    /\ \E n \in DOMAIN written : \E k \in DOMAIN written[n] :
          /\ written[n][k].op = "CUP"
          /\ written[n][k].row = heap[frameBuffer].height
          /\ written[n][k].col = heap[frameBuffer].width

\* NextFrame has returned a frame
FrameReturned == lastOp = "NextFrame" /\ ~tick.err /\ ~panicked

\* the grid is indexed by exactly the rows and columns of an h x w frame
GridOf(grid, h, w) ==
    /\ DOMAIN grid = 0..(h - 1)
    /\ \A r \in DOMAIN grid : DOMAIN grid[r] = 0..(w - 1)

\* C17: after every NextFrame the returned frame's height and width equal
\* the Engine's cached height and width, which equal the most recent
\* successfully queried terminal size; the three grids of the frame have
\* exactly those dimensions; and a frame buffer installed by a resize holds
\* nothing but what this tick drew into it.
C17_FrameMatchesSize ==
    FrameReturned
      => LET f == heap[frameBuffer]
         IN  /\ f.height = height
             /\ f.width = width
             /\ <<height, width>> = tick.queried
             /\ GridOf(f.characters, height, width)
             /\ GridOf(f.colors, height, width)
             /\ GridOf(f.isBackground, height, width)
             /\ tick.resized
                  => \A r \in 0..(height - 1) : \A c \in 0..(width - 1) :
                        (\A t \in tick.touched : ~(t.row = r /\ t.col = c))
                          => /\ f.characters[r][c] = " "
                             /\ f.colors[r][c] = ZeroColor
                             /\ f.isBackground[r][c]

\* a tick resized the engine to a frame of more than one cell and drew a
\* drop into the new buffer
C17_Witness ==
    /\ FrameReturned
    /\ tick.resized
    /\ height * width > 1
    /\ HasGlyph(heap[frameBuffer])
    /\ HasBackground(heap[frameBuffer])

\* the drops of the 0-based column col that are active and cover the row
Covering(row, col) ==
    {i \in DOMAIN drops[col + 1] :
        /\ drops[col + 1][i].Active
        /\ drops[col + 1][i].Pos - drops[col + 1][i].Length <= row
        /\ row <= drops[col + 1][i].Pos}

\* C18: the frame NextFrame returns shows exactly the active drops in their
\* state after the update: a cell is non-background iff an active drop of its
\* column covers its row, and then it holds such a drop's character; every
\* other cell is a space marked background.
C18_FrameShowsActiveDrops ==
    FrameReturned
      => \A r \in 0..(height - 1) : \A c \in 0..(width - 1) :
            LET f == heap[frameBuffer]
            IN  IF Covering(r, c) = {}
                THEN f.isBackground[r][c] /\ f.characters[r][c] = " "
                ELSE /\ ~f.isBackground[r][c]
                     /\ \E i \in Covering(r, c) :
                           f.characters[r][c] = drops[c + 1][i].Char

\* a frame in which one column shows a drop and another column's drop is
\* inactive and leaves its column empty
C18_Witness ==
    /\ FrameReturned
    /\ \E c \in 0..(width - 1) : \E r \in 0..(height - 1) : Covering(r, c) # {}
    /\ \E c \in 0..(width - 1) :
          /\ \E i \in DOMAIN drops[c + 1] : ~drops[c + 1][i].Active
          /\ \A r \in 0..(height - 1) : heap[frameBuffer].isBackground[r][c]

\* C20: between resizes NextFrame never adds or removes drops: every column
\* has the same number of drops before and after a tick, and a drop that has
\* fallen past the bottom is recycled in its slot with a new position, length
\* and character.
C20_DropsKeptInPlace ==
    [][PlainTick
         => /\ DOMAIN drops' = DOMAIN drops
            /\ \A c \in DOMAIN drops : Len(drops'[c]) = Len(drops[c])
            /\ \A s \in Slots(drops) :
                  WillReset(drops[s[1]][s[2]])
                    => /\ s \in Slots(drops')
                       /\ drops'[s[1]][s[2]].Pos < 0
                       /\ drops'[s[1]][s[2]].Length \in DropLengths
                       /\ drops'[s[1]][s[2]].Char \in DropChars]_vars

\* a tick without a resize recycled a drop in its slot and paused it
C20_Witness ==
    /\ FrameReturned
    /\ ~tick.resized
    /\ \E x \in tick.resets :
          /\ <<x.col, x.i>> \in Slots(drops)
          /\ ~drops[x.col][x.i].Active

\* the step is a call of Resize with the engine's current height and width
ResizeToSameSize == lastOp' = "Resize" /\ tick'.args = <<height, width>>

\* C21: Resize(h, w) with h and w equal to the engine's current height and
\* width is a no-op: the drop grid, the frame buffer and the dimensions are
\* unchanged and no random value is consumed.
C21_ResizeSameSizeNoOp ==
    [][ResizeToSameSize
         => /\ drops' = drops
            /\ frameBuffer' = frameBuffer
            /\ heap' = heap
            /\ height' = height
            /\ width' = width
            /\ tick'.randoms = 0
            /\ ~tick'.resized
            /\ ~tick'.allocated
            /\ ~panicked']_vars

\* Resize was called with the current size on an engine whose frame shows a
\* drop, and the frame still shows it
C21_Witness ==
    /\ lastOp = "Resize"
    /\ tick.args = <<height, width>>
    /\ ~tick.resized
    /\ HasGlyph(heap[frameBuffer])

\* the step is a NextFrame call that found the terminal size unchanged, or
\* could not query it
TickAtSameSize ==
    /\ lastOp' = "NextFrame"
    /\ tick'.sizeErr \/ tick'.queried = <<height, width>>

\* C22: a NextFrame call that finds the terminal size unchanged returns the
\* same frame buffer, mutated in place, and allocates no new frame.
C22_SteadyStateReusesBuffer ==
    [][TickAtSameSize
         => /\ frameBuffer' = frameBuffer
            /\ ~tick'.allocated
            /\ ~tick'.resized
            /\ heap'[frameBuffer'].height = heap[frameBuffer].height
            /\ heap'[frameBuffer'].width = heap[frameBuffer].width
            /\ \A r \in Refs \ {frameBuffer} : heap'[r] = heap[r]]_vars

\* a tick at an unchanged size drew a drop into the buffer it already had
C22_Witness ==
    /\ FrameReturned
    /\ ~tick.sizeErr
    /\ ~tick.allocated
    /\ tick.args = <<0, 0>>
    /\ HasGlyph(heap[frameBuffer])

\* the drop counts the claim allows for a density given in tenths
AllowedCounts(density10) ==
    IF density10 \div 10 = 0
    THEN {1}
    ELSE {density10 \div 10, (density10 \div 10) + 1}

\* C23: after every Resize that changes the dimensions the drop grid has
\* exactly width columns and every column holds at least one drop, the count
\* per column being floor(density) or floor(density) + 1, raised to 1 when
\* that would be 0.
C23_GridShape ==
    /\ (frameBuffer # Nil /\ ~panicked /\ ~tick.err)
          => /\ Len(drops) = width
             /\ \A c \in DOMAIN drops :
                   /\ Len(drops[c]) >= 1
                   /\ Len(drops[c]) \in AllowedCounts(Density10)
    /\ \A d \in MinDensity10..MaxDensity10 :
          numDropsFor(d) >= 1 /\ numDropsFor(d) \in AllowedCounts(d)

\* Resize was called for one column on an engine that had two
C23_Witness ==
    /\ lastOp = "Resize"
    /\ tick.resized
    /\ tick.queried = <<2, 2>>
    /\ width = 1
    /\ Len(drops) = 1

\* the sum of the three channels
Brightness(c) == c[1] + c[2] + c[3]

\* C24: for every base colour the gradient calcTrailColors computes has
\* non-increasing brightness (sum of the channels) from index 0 to index
\* N - 1, and every channel of every gradient colour lies in [0, 255].
C24_GradientFades ==
    ctor.result = "engine"
      => LET g == ctor.trailColors
         IN  /\ DOMAIN g = 0..(NumTrailColors - 1)
             /\ \A i \in DOMAIN g : \A k \in 1..3 : g[i][k] \in 0..MaxChannel
             /\ \A i \in DOMAIN g : \A j \in DOMAIN g :
                   i <= j => Brightness(g[i]) >= Brightness(g[j])

\* an engine was built with the amber theme: its gradient starts at the base
\* colour and ends darker
C24_Witness ==
    /\ ctor.result = "engine"
    /\ ctor.cfg.BaseColor = <<255, 191, 0>>
    /\ ctor.trailColors[0] = <<255, 191, 0>>
    /\ Brightness(ctor.trailColors[NumTrailColors - 1]) < Brightness(ctor.trailColors[0])

\* floor(dist * N / length) clamped to [0, N - 1], without division
FloorIndex(dist, length) ==
    CHOOSE k \in 0..(NumTrailColors - 1) :
        /\ k * length <= dist * NumTrailColors
        /\ \/ dist * NumTrailColors < (k + 1) * length
           \/ k = NumTrailColors - 1

\* C25: for every row that drawDrop writes, the gradient index is
\* floor(distanceFromHead * N / length) clamped to [0, N - 1]: it is a valid
\* index into the N trail colours, it is 0 at the head row, and it does not
\* decrease as the distance from the head grows; the cell gets the colour at
\* that index. The same holds for every length Parse configures.
C25_GradientIndex ==
    /\ \A t \in tick.touched :
          /\ t.idx \in 0..(NumTrailColors - 1)
          /\ t.idx = FloorIndex(t.Pos - t.row, t.Length)
          /\ t.row = t.Pos => t.idx = 0
          /\ \A u \in tick.touched :
                (u.col = t.col /\ u.Pos = t.Pos /\ u.Length = t.Length
                   /\ u.row <= t.row) => u.idx >= t.idx
    /\ FrameReturned
          => \A r \in 0..(height - 1) : \A c \in 0..(width - 1) :
                ~heap[frameBuffer].isBackground[r][c]
                   => \E t \in tick.touched :
                         /\ t.row = r /\ t.col = c
                         /\ heap[frameBuffer].colors[r][c] = trailColors[t.idx]
    /\ \A length \in ParseMinDropLength..ParseMaxDropLength :
          \A dist \in 0..length :
             /\ getTrailColorIndex(dist, 0, length) = FloorIndex(dist, length)
             /\ dist > 0 => getTrailColorIndex(dist, 0, length)
                               >= getTrailColorIndex(dist - 1, 0, length)

\* a tick drew a whole drop: its head with index 0, a row in the middle of
\* the gradient, and its tail row with the clamped index N - 1
C25_Witness ==
    /\ FrameReturned
    /\ \E t \in tick.touched : \E u \in tick.touched : \E v \in tick.touched :
          /\ t.col = u.col /\ u.col = v.col
          /\ t.Pos = u.Pos /\ u.Pos = v.Pos
          /\ t.Length = u.Length /\ u.Length = v.Length
          /\ t.row = t.Pos /\ t.idx = 0
          /\ u.idx > 0 /\ u.idx < NumTrailColors - 1
          /\ v.row = v.Pos - v.Length /\ v.idx = NumTrailColors - 1
          /\ heap[frameBuffer].colors[v.row][v.col] = trailColors[NumTrailColors - 1]

\* the flags that Parse is to accept
ValidFlags(f) ==
    /\ ~f.listOptions
    /\ \E e \in ColorThemes : e.name = ToLower(f.colorName)
    /\ f.fps \in 1..60
    /\ ~f.density.nan /\ f.density.v >= 10 /\ f.density.v <= 300
    /\ f.charSetName # << >>

\* C26: Parse returns a Config only if the colour name is a known theme
\* (compared case-insensitively), fps is in [1, 60], density is in [0.1, 3.0]
\* and the character set is non-empty; in every other case, and when -list
\* is given, it returns an error and no Config.
C26_ParseValidates ==
    lastOp = "Parse"
      => IF ValidFlags(ctor.flags)
         THEN ctor.cfg # {} /\ ctor.err = ""
         ELSE ctor.cfg = {} /\ ctor.err # ""

\* C26 without the density: Parse returns a Config with the theme's colour
\* and a non-empty character set or an error and no Config, and for a
\* density that is a number it returns the Config exactly for the valid flags
C26_ParseValidatesNumbers ==
    lastOp = "Parse"
      => /\ (ctor.cfg = {}) # (ctor.err = "")
         /\ ~ctor.flags.density.nan
              => (ValidFlags(ctor.flags) <=> ctor.cfg # {})
         /\ \A c \in ctor.cfg :
               /\ c.CharSet # << >>
               /\ c.BaseColor \in ThemeColors
               /\ c.FPS \in 1..60

\* Parse returned a Config for a density that is not a number
C26_Witness ==
    /\ lastOp = "Parse"
    /\ ctor.flags.density.nan
    /\ ctor.cfg # {}
    /\ ctor.flags.colorName = <<"G", "r", "E", "e", "N">>

\* the step is a call of Update on one drop, or a NextFrame call that
\* completed without rebuilding the grid
UpdateStep == lastOp' = "Update" \/ PlainTick

\* the entry of tick.resets for slot s whose drop had length len
ResetOf(s, len) == [col |-> s[1], i |-> s[2], oldLength |-> len]

\* C27: a drop goes from Active to Inactive only on a tick in which it is
\* reset (its head has passed height + length); on a tick that does not
\* reset it, an active drop stays Active.
C27_PauseOnlyOnReset ==
    [][UpdateStep
         => \A s \in Slots(drops) :
               LET d == drops[s[1]][s[2]]
                   e == drops'[s[1]][s[2]]
               IN  d.Active
                     => IF WillReset(d) /\ s \in tick'.updated
                        THEN ResetOf(s, d.Length) \in tick'.resets
                        ELSE /\ e.Active
                             /\ \A x \in tick'.resets : <<x.col, x.i>> # s]_vars

\* an Update call reset a drop and its pause roll made it inactive
C27_Witness ==
    /\ lastOp = "Update"
    /\ \E x \in tick.resets :
          /\ <<x.col, x.i>> \in tick.updated
          /\ ~drops[x.col][x.i].Active

\* C28: on a tick in which an active drop is not reset, Update increases its
\* position by exactly 1 and leaves its length, character and active flag
\* unchanged; a drop's length and character change only on a reset or a
\* reactivation.
C28_FallKeepsDrop ==
    [][UpdateStep
         => \A s \in Slots(drops) :
               LET d == drops[s[1]][s[2]]
                   e == drops'[s[1]][s[2]]
               IN  /\ (d.Active /\ ~WillReset(d) /\ s \in tick'.updated)
                        => e = [d EXCEPT !.Pos = d.Pos + 1]
                   /\ (e.Length # d.Length \/ e.Char # d.Char)
                        => \/ ResetOf(s, d.Length) \in tick'.resets
                           \/ ~d.Active /\ e.Active /\ s \in tick'.rolls]_vars

\* an Update call advanced an active drop without resetting it
C28_Witness ==
    /\ lastOp = "Update"
    /\ tick.resets = {}
    /\ tick.rolls = {}
    /\ \E s \in tick.updated :
          /\ drops[s[1]][s[2]].Active
          /\ drops[s[1]][s[2]].Pos > 0

\* C29: an inactive drop whose reactivation roll fails is not changed in any
\* field, and an inactive drop writes no cell of the frame, also when it was
\* paused by the reset of this same tick: drawDrop is called for active drops
\* only, and every cell that is not background is covered by an active drop.
C29_InactiveUntouched ==
    [][UpdateStep
         => /\ \A s \in Slots(drops) :
                  (~drops[s[1]][s[2]].Active /\ ~drops'[s[1]][s[2]].Active)
                     => drops'[s[1]][s[2]] = drops[s[1]][s[2]]
            /\ \A s \in tick'.drawn : drops'[s[1]][s[2]].Active
            /\ \A x \in tick'.resets :
                  ~drops'[x.col][x.i].Active => <<x.col, x.i>> \notin tick'.drawn
            /\ lastOp' = "NextFrame"
                 => \A c \in DOMAIN drops' : \A r \in 0..(height' - 1) :
                       ~heap'[frameBuffer'].isBackground[r][c - 1]
                          => \E i \in DOMAIN drops'[c] :
                                /\ drops'[c][i].Active
                                /\ <<c, i>> \in tick'.drawn
                                /\ drops'[c][i].Pos - drops'[c][i].Length <= r
                                /\ r <= drops'[c][i].Pos]_vars

\* an Update call made the reactivation roll for an inactive drop and the
\* roll failed, while the frame of the last tick shows nothing in its column
C29_Witness ==
    /\ lastOp = "Update"
    /\ \E s \in tick.rolls :
          /\ ~drops[s[1]][s[2]].Active
          /\ \A i \in DOMAIN drops[s[1]] : ~drops[s[1]][i].Active
          /\ \A r \in 0..(height - 1) : heap[frameBuffer].isBackground[r][s[1] - 1]

\* C30: when an inactive drop's reactivation roll succeeds in Update, the
\* drop becomes Active with position exactly 0, a newly drawn length in
\* [MinDropLength, MaxDropLength] and a newly drawn character of the set.
C30_ReactivatedAtTop ==
    [][UpdateStep
         => \A s \in Slots(drops) :
               LET d == drops[s[1]][s[2]]
                   e == drops'[s[1]][s[2]]
               IN  (~d.Active /\ s \in tick'.rolls /\ e # d)
                     => /\ e.Active
                        /\ e.Pos = 0
                        /\ e.Length \in DropLengths
                        /\ e.Char \in DropChars]_vars

\* an Update call reactivated a drop with a length other than the shortest
C30_Witness ==
    /\ lastOp = "Update"
    /\ \E s \in tick.rolls :
          /\ drops[s[1]][s[2]].Active
          /\ drops[s[1]][s[2]].Pos = 0
          /\ drops[s[1]][s[2]].Length > MinDropLength

\* every drop of the grid is active
AllActive(grid) == \A s \in Slots(grid) : grid[s[1]][s[2]].Active

\* every drop of the grid has a configured length and character
AllConfigured(grid) ==
    \A s \in Slots(grid) :
        /\ grid[s[1]][s[2]].Length \in DropLengths
        /\ grid[s[1]][s[2]].Char \in DropChars

\* C31: every drop created by Resize starts Active, and after any sequence
\* of resizes and ticks every drop has a length in
\* [MinDropLength, MaxDropLength] and a character of the configured set.
C31_DropsWellFormed ==
    /\ AllConfigured(drops)
    /\ (lastOp = "Resize" /\ tick.resized) => AllActive(drops)
    /\ (lastOp = "NextFrame" /\ tick.resized)
          => AllActive(tick.resizedDrops) /\ AllConfigured(tick.resizedDrops)

\* a tick at a new size rebuilt the grid and then advanced its drops; one of
\* the drops has the greatest length
C31_Witness ==
    /\ lastOp = "NextFrame"
    /\ tick.resized
    /\ Slots(tick.resizedDrops) # {}
    /\ \E s \in Slots(drops) : drops[s[1]][s[2]].Length = MaxDropLength
    /\ \E s \in Slots(drops) : drops[s[1]][s[2]] # tick.resizedDrops[s[1]][s[2]]

\* what the terminal is to show in a cell of the frame
Shown(f, r, c) ==
    [ch |-> f.characters[r][c],
     fg |-> IF f.isBackground[r][c] THEN DefaultAttr
            ELSE [set |-> TRUE, color |-> f.colors[r][c]]]

\* C32: after a full render of a frame the terminal shows the frame's
\* character in every cell, every non-background cell in the frame's colour
\* for that cell and every background cell with attributes reset, for every
\* combination of colours and background flags of neighbouring cells.
C32_FullRenderShowsFrame ==
    lastOp = "DrawFull"
      => \A r \in 0..(heap[frameBuffer].height - 1) :
         \A c \in 0..(heap[frameBuffer].width - 1) :
            term.cells[r + 1][c + 1] = Shown(heap[frameBuffer], r, c)

\* C32 for the frames in which no glyph has the zero colour: the colour of a
\* background neighbour is then never the colour of the glyph next to it
C32_FullRenderShowsColoured ==
    (/\ lastOp = "DrawFull"
     /\ \A r \in 0..(heap[frameBuffer].height - 1) :
        \A c \in 0..(heap[frameBuffer].width - 1) :
           ~heap[frameBuffer].isBackground[r][c]
              => heap[frameBuffer].colors[r][c] # ZeroColor)
      => \A r \in 0..(heap[frameBuffer].height - 1) :
         \A c \in 0..(heap[frameBuffer].width - 1) :
            term.cells[r + 1][c + 1] = Shown(heap[frameBuffer], r, c)

\* C33: at the end of every Draw call the terminal's foreground attribute is
\* in the reset state: a render that emitted a set-foreground sequence emits
\* a reset after the last coloured cell, so no colour leaks from one render
\* pass into the background cells written by the next, and every background
\* cell of the drawn frame is shown with default attributes.
C33_AttrResetAfterDraw ==
    /\ term.attr = DefaultAttr
    /\ lastOp \in DrawOps
         => /\ \A n \in DOMAIN written : \A k \in DOMAIN written[n] :
                  written[n][k].op = "SGR"
                     => \E j \in (k + 1)..Len(written[n]) :
                           written[n][j].op = "RESET"
            /\ \A r \in 0..(heap[frameBuffer].height - 1) :
               \A c \in 0..(heap[frameBuffer].width - 1) :
                  heap[frameBuffer].isBackground[r][c]
                     => term.cells[r + 1][c + 1].fg = DefaultAttr

\* a delta render wrote a coloured cell and after it a background cell, and
\* ended with a coloured cell followed by the reset
C33_Witness ==
    /\ lastOp = "DrawDelta"
    /\ Len(written) = 1
    /\ \E k \in DOMAIN written[1] : \E j \in DOMAIN written[1] :
          /\ k < j
          /\ written[1][k].op = "SGR"
          /\ written[1][k].color = Green
          /\ written[1][j].op = "CHAR"
          /\ written[1][j].ch = " "
    /\ written[1][Len(written[1])].op = "RESET"
    /\ written[1][Len(written[1]) - 1].op = "CHAR"
    /\ written[1][Len(written[1]) - 1].ch # " "

\* C34: for a constructed engine and every terminal size with height >= 1
\* and width >= 1, height 1 included, Resize completes without a runtime
\* failure and returns no error, at start-up and from NextFrame.
C34_ResizeNeverFails ==
    ~panicked /\ ~tick.err

\* C34 for the heights above 1: Resize fails for no other size, and when it
\* fails it is by the panic of random.Intn(height/2), never by an error
C34_ResizeFailsOnlyAtHeightOne ==
    /\ ~tick.err
    /\ panicked => (lastOp \in {"Resize", "NextFrame"} /\ tick.args[1] = 1)
    /\ (lastOp \in {"Resize", "NextFrame"} /\ tick.args[1] > 1) => ~panicked

\* C35: each Draw call performs at most one write to the output, carrying
\* the complete update for that frame: every cell in a full render, every
\* changed cell in a delta render, and no write at all when a delta render
\* finds no changed cell.
C35_OneWritePerDraw ==
    [][lastOp' \in DrawOps
         => /\ Len(written') <= 1
            /\ lastOp' = "DrawFull"
                 => /\ Len(written') = 1
                    /\ CountOp(written'[1], "CHAR")
                          = heap[frameBuffer].height * heap[frameBuffer].width
            /\ lastOp' = "DrawDelta"
                 => LET d == DifferingCells(heap[frameBuffer], heap[previousFrame])
                    IN  IF d = {}
                        THEN written' = << >>
                        ELSE /\ Len(written') = 1
                             /\ CountOp(written'[1], "CHAR") = Cardinality(d)
                             /\ CountOp(written'[1], "CUP") = Cardinality(d)]_vars

\* a delta render put the update of three changed cells into its one write
C35_Witness ==
    /\ lastOp = "DrawDelta"
    /\ Len(written) = 1
    /\ CountOp(written[1], "CUP") = 3
    /\ CountOp(written[1], "CHAR") = 3

\* C36: Run calls the terminal's Setup before the first frame is drawn and
\* calls Restore exactly once on every way out of Run, after the last Draw;
\* no frame is drawn after Restore.
C36_SetupAndRestore ==
    /\ [](previousFrame # Nil => run.setups = 1)
    /\ [](run.setups <= 1)
    /\ [](run.restores = IF run.at \in {"returned", "crashed"} THEN 1 ELSE 0)
    /\ [](run.restores = 1 => (run.setups = 1 /\ run.undrawn = 0))
    /\ [][run'.setups # run.setups => (previousFrame = Nil /\ run.restores = 0)]_vars
    /\ [][run.restores >= 1
            => (/\ run'.restores = run.restores
                /\ UNCHANGED <<previousFrame, written, term, heap, lastOp>>)]_vars

\* Run was cancelled while it waited in the select, after it had drawn
\* frames, and restored the terminal on its way out
C36_Witness ==
    /\ run.at = "returned"
    /\ run.cancelledAt = "select"
    /\ run.setups = 1
    /\ run.restores = 1
    /\ previousFrame # Nil
    /\ lastOp = "DrawDelta"

\* C37: after every NextFrame, and after every Resize, every drop of the
\* grid satisfies Pos - Length <= height for the engine's current height:
\* its head is never more than its own length below the bottom edge.
C37_HeadWithinReach ==
    (lastOp \in {"NextFrame", "Resize"} /\ ~panicked)
      => \A s \in Slots(drops) :
            drops[s[1]][s[2]].Pos - drops[s[1]][s[2]].Length <= height

\* a tick left an active drop with its tail exactly one row below the frame,
\* the lowest place a drop can be in
C37_Witness ==
    /\ FrameReturned
    /\ \E s \in Slots(drops) :
          /\ drops[s[1]][s[2]].Active
          /\ drops[s[1]][s[2]].Pos - drops[s[1]][s[2]].Length = height

\* the slots a grid can have
SteadySlots == UNION {(1..d[2]) \X (1..numDrops) : d \in SteadySizes}

\* slot s holds an active drop
ActiveAt(s) ==
    /\ s \in Slots(drops)
    /\ drops[s[1]][s[2]].Active

\* the latest tick reset the drop of slot s
ResetAt(s) ==
    /\ lastOp = "NextFrame"
    /\ \E x \in tick.resets : x.col = s[1] /\ x.i = s[2]

\* the ticks an active drop needs until the one that resets it
TicksToReset(d) == height + d.Length - d.Pos + 1

\* how far above the frame the head of a drop is
Depth(d) == IF d.Pos < 0 THEN 0 - d.Pos ELSE 0

\* C38: while ticks keep occurring and the terminal size stays the same,
\* every active drop is eventually reset: its position increases by one per
\* tick and, within a number of ticks bounded by height plus twice the
\* maximum drop length plus the depth of its negative offset, it passes
\* height + length and is recycled.
C38_ActiveDropIsReset ==
    /\ \A s \in SteadySlots : ActiveAt(s) ~> ResetAt(s)
    /\ [](\A s \in Slots(drops) :
             drops[s[1]][s[2]].Active
               => TicksToReset(drops[s[1]][s[2]])
                     \in 1..(height + 2 * MaxDropLength + Depth(drops[s[1]][s[2]])))
    /\ [][lastOp' = "NextFrame"
            => \A s \in Slots(drops) :
                  LET d == drops[s[1]][s[2]]
                      e == drops'[s[1]][s[2]]
                  IN  d.Active
                        => IF TicksToReset(d) = 1
                           THEN ResetOf(s, d.Length) \in tick'.resets
                           ELSE /\ e.Active
                                /\ e.Pos = d.Pos + 1
                                /\ TicksToReset(e) = TicksToReset(d) - 1]_vars

\* a tick reset a drop that started above the frame and fell the whole way
C38_Witness ==
    /\ lastOp = "NextFrame"
    /\ ~tick.resized
    /\ \E x \in tick.resets :
          /\ x.oldLength = MaxDropLength
          /\ drops[x.col][x.i].Active
          /\ drops[x.col][x.i].Pos = 0 - MaxDropLength

====
